---- MODULE Spec2Model ----
(***************************************************************************)
(* The session orchestrators of the fluency coach (three App variants of   *)
(* the repository) as state machines.  A React handler runs to its first   *)
(* await as one step; what follows each await is a continuation that runs  *)
(* when the awaited promise settles, with the values its closure captured  *)
(* when the handler was invoked.  State updates made between two awaits    *)
(* are applied together (React batches them).  The voice capture hooks are *)
(* part of the model: CaptureSpec adds the fluency variant's hook to its    *)
(* sessions, HookSpec and FrameSpec run either hook at a question.          *)
(***************************************************************************)
EXTENDS Integers, Sequences, FiniteSets, TLC

VARIABLES
    app,                  \* which App component is mounted
    interviewState,       \* useState<InterviewState>
    context,              \* useState('')
    questions,            \* useState<string[]>([])
    currentQuestionIndex, \* useState(0)
    currentAnswer,        \* useState('')
    feedback,             \* useState<Feedback | null>(null)
    finalReport,          \* useState<FinalReport | null>(null)
    sessionHistory,       \* useState<HistoryItem[]>([])
    error,                \* useState('')
    tasks,                \* async handlers and requests not yet settled
    timers,               \* pending setTimeout(() => setError(''), 3000)
    appState,             \* image variant: useState<InterviewState>
    isLoading,            \* image variant: useState(false)
    history,              \* image variant: useState<HistoryItem[]>([])
    currentImageUrl,      \* image variant: useState<string | null>(null)
    faults,               \* environment: whether requests can fail in this run
    reportCount,          \* observer: generateFinalReport calls since the last
                          \* reset (2 stands for two or more)
    reportSent,           \* observer: the history the last such call was given
    isRecording,          \* useLiveConversation: useState(false)
    transcript,           \* useLiveConversation: useState('')
    sessionRef,           \* useRef: the live session the hook holds
    audioContextRef,      \* useRef: the AudioContext the hook holds
    processorRef,         \* useRef: the processor node (sourceRef goes with it)
    mediaStreamRef,       \* useRef: the microphone stream the hook holds
    openSessions,         \* live sessions connected and not closed
    openContexts,         \* AudioContexts created and not closed
    connectedGraphs,      \* source -> processor graphs not disconnected
    liveStreams,          \* microphone streams whose tracks are not stopped
    captures,             \* startRecording calls so far (names the resources)
    teardowns,            \* pending setTimeout(..., 500) of stopRecording
    fullTranscriptRef,    \* useSpeechToText: useRef(''), the committed turns
    currentTurnTranscriptRef, \* useSpeechToText: useRef(''), the open turn
    frameCount,           \* observer: audio frames captured so far (names them)
    pendingFrames,        \* reactions of sessionPromise.then(...) not yet run
    sentFrames,           \* frames handed to sendRealtimeInput, in that order
    inputBuffer,          \* the samples the processor delivers with a frame
    pcmBlob               \* the Blob the last onaudioprocess made of them

vars == <<app, interviewState, context, questions, currentQuestionIndex,
          currentAnswer, feedback, finalReport, sessionHistory, error,
          tasks, timers, appState, isLoading, history, currentImageUrl,
          faults, reportCount, reportSent, isRecording, transcript,
          sessionRef, audioContextRef, processorRef, mediaStreamRef,
          openSessions, openContexts, connectedGraphs, liveStreams,
          captures, teardowns, fullTranscriptRef, currentTurnTranscriptRef,
          frameCount, pendingFrames, sentFrames, inputBuffer, pcmBlob>>

\* what no handler writes
envVars == <<app, faults>>
\* the observers of the final-report request
reportVars == <<reportCount, reportSent>>
\* the refs of the capture hook, and what they can refer to
captureRefs == <<sessionRef, audioContextRef, processorRef, mediaStreamRef>>
captureResources == <<openSessions, openContexts, connectedGraphs, liveStreams>>
\* the two text refs of useSpeechToText, and the audio frames of a capture
turnRefs == <<fullTranscriptRef, currentTurnTranscriptRef>>
frameVars == <<frameCount, pendingFrames, sentFrames, inputBuffer, pcmBlob>>
\* the state of useLiveConversation and of useSpeechToText
captureVars == <<isRecording, transcript, captureRefs, captureResources,
                 captures, teardowns, turnRefs, frameVars>>

\* the state of the two variants without images, and of the image variant
fluencyVars == <<interviewState, feedback, sessionHistory, timers>>
imageVars == <<appState, isLoading, history, currentImageUrl>>

----------------------------------------------------------------------------
(* Bounds of the model. *)

MaxQuestions == 2
MaxTasks == 2
MaxTimers == 1
MaxHistory == 2
MaxCaptures == 1
MaxTeardowns == 2
MaxTranscript == 1
MaxStarts == 2
MaxFrames == 2
MaxSpoken == 3
MaxSamples == 2

----------------------------------------------------------------------------
(* Values. *)

\* Strings the user can type: sequences of characters, so that trim() is
\* computed and not assumed.
Texts == {<<>>, <<" ">>, <<" ", "a", " ">>}

\* Question lists the service can return: every length up to MaxQuestions,
\* none included, the two texts alternating from either one.
QuestionTexts == {"q1", "q2"}
Other(q) == IF q = "q1" THEN "q2" ELSE "q1"
QuestionLists ==
    {[j \in 1..k |-> IF j % 2 = 1 THEN q ELSE Other(q)] :
        k \in 0..MaxQuestions, q \in QuestionTexts}
Undefined == "undefined"

Feedbacks == {"band5", "band8"}
Reports == {"report"}
Null == "null"
\* a ref of the capture hook that holds null: captures are numbered from 1
NoCapture == 0

NOT_STARTED == "NOT_STARTED"
GENERATING_QUESTIONS == "GENERATING_QUESTIONS"
ASKING_QUESTION == "ASKING_QUESTION"
AWAITING_ANSWER == "AWAITING_ANSWER"
EVALUATING_ANSWER == "EVALUATING_ANSWER"
SHOWING_FEEDBACK == "SHOWING_FEEDBACK"
GENERATING_REPORT == "GENERATING_REPORT"
COMPLETED == "COMPLETED"
ERROR == "ERROR"

CONTEXT_SELECTION == "CONTEXT_SELECTION"
SESSION_ACTIVE == "SESSION_ACTIVE"
FINAL_REPORT == "FINAL_REPORT"

InterviewState == {NOT_STARTED, GENERATING_QUESTIONS, ASKING_QUESTION,
                   AWAITING_ANSWER, EVALUATING_ANSWER, SHOWING_FEEDBACK,
                   GENERATING_REPORT, COMPLETED, ERROR}

----------------------------------------------------------------------------
(* String.prototype.trim on character sequences. *)

RECURSIVE TrimStart(_)
TrimStart(s) ==
    IF s # <<>> /\ Head(s) = " " THEN TrimStart(Tail(s)) ELSE s

RECURSIVE TrimEnd(_)
TrimEnd(s) ==
    IF s # <<>> /\ s[Len(s)] = " " THEN TrimEnd(SubSeq(s, 1, Len(s) - 1)) ELSE s

\* the text as it is, untrimmed
NoTrim(s) == s

Trim(s) == TrimEnd(TrimStart(s))

\* a test for the empty string only
IsEmpty(s) == s = <<>>

\* !text.trim()
IsBlank(s) == Trim(s) = <<>>

\* questions[i] of a JavaScript array (0-based; undefined out of range)
At(qs, i) == IF i >= 0 /\ i < Len(qs) THEN qs[i + 1] ELSE Undefined

RemoveAt(s, i) == SubSeq(s, 1, i - 1) \o SubSeq(s, i + 1, Len(s))

\* the comparison without the "- 1"
MoreQuestionsOffByOne(i, qs) == i < Len(qs)

\* currentQuestionIndex < questions.length - 1
MoreQuestions(i, qs) == i < Len(qs) - 1

\* one more generateFinalReport call, given history h
ReportRequested(h) ==
    /\ reportCount' = (IF reportCount < 2 THEN reportCount + 1 ELSE 2)
    /\ reportSent' = h

ReportsForgotten ==
    /\ reportCount' = 0
    /\ reportSent' = <<>>

----------------------------------------------------------------------------
(* The coaching service client: what each call can settle to. *)

Ok(v) == [ok |-> TRUE, value |-> v, message |-> ""]
Err(m) == [ok |-> FALSE, value |-> Null, message |-> m]

\* a call that throws (request error, unparsable or missing payload), in the
\* runs where the service can fail
Throws(m) == IF faults THEN {Err(m)} ELSE {}

\* parsed.questions || [] on success; any failure is rethrown with one message
generateQuestions ==
    {Ok(qs) : qs \in QuestionLists}
        \cup Throws("Failed to generate interview questions.")

evaluateAnswer ==
    {Ok(fb) : fb \in Feedbacks} \cup Throws("Failed to evaluate the answer.")

generateFinalReport ==
    {Ok(r) : r \in Reports} \cup Throws("Failed to generate the final report.")

textToSpeech ==
    {Ok("audio")} \cup Throws("Failed to generate audio.")

\* The image variant's client is not among the repository's files; its calls
\* follow the collaborator contract: question generation fails rather than
\* return no question, an image is generated from the prompt it was asked for.
generateQuestionData ==
    {Ok(qs) : qs \in QuestionLists \ {<<>>}}
        \cup Throws("Failed to generate interview questions.")

ImageOf(q) == IF q = "q1" THEN "image-of-q1" ELSE "image-of-q2"

generateImage(q) == {Ok(ImageOf(q))} \cup Throws("Failed to generate image.")

\* The audio-playback collaborator plays a payload to completion; playback
\* failures are logged, not propagated.
playAudio == {Ok("played")}

----------------------------------------------------------------------------
(* The audio of a frame.  A sample is a number k standing for the float    *)
(* k / (2 * FullScale), so that -2 * FullScale is -1.0, 2 * FullScale is   *)
(* 1.0 and odd k give products that are not integers.                      *)

\* the factor of data[i] * 32768
FullScale == 32768

\* samples at both ends of [-1.0, 1.0], next to them, and around zero
Samples == {-2 * FullScale, 1 - 2 * FullScale, -1, 0, 1, 2 * FullScale - 1,
            2 * FullScale}

RECURSIVE SeqsUpTo(_, _)
SeqsUpTo(S, n) ==
    IF n = 0 THEN {<<>>}
    ELSE SeqsUpTo(S, n - 1) \cup
         {Append(q, x) : q \in {t \in SeqsUpTo(S, n - 1) : Len(t) = n - 1},
                         x \in S}

\* the buffers a frame can carry
Buffers == SeqsUpTo(Samples, MaxSamples)

\* the integer part of a / b (b positive), as storing a number in a typed
\* array takes it: towards zero
Truncated(a, b) == IF a >= 0 THEN a \div b ELSE -((-a) \div b)

\* storing an integer in an Int16Array: modulo 2^16, read as signed
ToInt16(n) ==
    LET m == n % 2^16 IN IF m >= 2^15 THEN m - 2^16 ELSE m

\* int16[i] = data[i] * 32768, for every i: the product of the sample k is
\* the number k / 2
Int16Array(data) == [i \in DOMAIN data |-> ToInt16(Truncated(data[i], 2))]

\* new Uint8Array(int16.buffer): two bytes per value, the low one first
RECURSIVE Uint8Array(_)
Uint8Array(int16) ==
    IF int16 = <<>> THEN <<>>
    ELSE LET u == Head(int16) % 2^16
         IN  <<u % 256, u \div 256>> \o Uint8Array(Tail(int16))

\* the padding character of base64, after the 64 digits 0..63
Pad == 64

\* encode: btoa of the bytes, as base64 digits
RECURSIVE encode(_)
encode(bytes) ==
    IF bytes = <<>> THEN <<>>
    ELSE IF Len(bytes) = 1
    THEN <<bytes[1] \div 4, (bytes[1] % 4) * 16, Pad, Pad>>
    ELSE IF Len(bytes) = 2
    THEN <<bytes[1] \div 4, (bytes[1] % 4) * 16 + bytes[2] \div 16,
           (bytes[2] % 16) * 4, Pad>>
    ELSE <<bytes[1] \div 4, (bytes[1] % 4) * 16 + bytes[2] \div 16,
           (bytes[2] % 16) * 4 + bytes[3] \div 64, bytes[3] % 64>>
         \o encode(SubSeq(bytes, 4, Len(bytes)))

createBlob(data) ==
    [data |-> encode(Uint8Array(Int16Array(data))),
     mimeType |-> "audio/pcm;rate=16000"]

\* pcmBlob before the first frame
NoBlob == [data |-> <<>>, mimeType |-> ""]

----------------------------------------------------------------------------
(* Suspended handlers. *)

\* h: the handler; pc: the await it is suspended at; the rest: what its
\* closure captured when it was invoked
TaskImg(h, pc, q, a, hist, img, idx, qs) ==
    [h |-> h, pc |-> pc, question |-> q, answer |-> a, history |-> hist,
     imageUrl |-> img, index |-> idx, questions |-> qs]

Task(h, pc, q, a, hist) == TaskImg(h, pc, q, a, hist, Null, 0, <<>>)

\* an entry that keeps the trimmed answer instead of the answer as typed
HistoryItemTrimmed(q, a, fb) ==
    [question |-> q, answer |-> Trim(a), feedback |-> fb]

HistoryItem(q, a, fb) == [question |-> q, answer |-> a, feedback |-> fb]

\* a suspended handler whose continuation reads nothing of what it captured
Resumed(h, pc) == Task(h, pc, Undefined, <<>>, <<>>)

HistoryItemImg(q, a, fb, img) ==
    [questionData |-> q, answer |-> a, feedback |-> fb, imageUrl |-> img]

\* The three App components of the repository; one of them is mounted.
Apps == {"fluency", "basic", "image"}

Init ==
    /\ app \in Apps
    /\ faults \in BOOLEAN
    /\ reportCount = 0
    /\ reportSent = <<>>
    /\ interviewState = NOT_STARTED
    /\ context = <<>>
    /\ questions = <<>>
    /\ currentQuestionIndex = 0
    /\ currentAnswer = <<>>
    /\ feedback = (IF app = "basic" THEN "" ELSE Null)
    /\ finalReport = Null
    /\ sessionHistory = <<>>
    /\ error = (IF app = "image" THEN Null ELSE "")
    /\ tasks = <<>>
    /\ timers = 0
    /\ appState = CONTEXT_SELECTION
    /\ isLoading = FALSE
    /\ history = <<>>
    /\ currentImageUrl = Null
    /\ isRecording = FALSE
    /\ transcript = <<>>
    /\ sessionRef = NoCapture
    /\ audioContextRef = NoCapture
    /\ processorRef = NoCapture
    /\ mediaStreamRef = NoCapture
    /\ openSessions = {}
    /\ openContexts = {}
    /\ connectedGraphs = {}
    /\ liveStreams = {}
    /\ captures = 0
    /\ teardowns = 0
    /\ fullTranscriptRef = <<>>
    /\ currentTurnTranscriptRef = <<>>
    /\ frameCount = 0
    /\ pendingFrames = <<>>
    /\ sentFrames = <<>>
    /\ inputBuffer = <<>>
    /\ pcmBlob = NoBlob

----------------------------------------------------------------------------
(* The fluency coach (context, history, final report). *)

\* onChange of the context input, rendered in NOT_STARTED
SetContext ==
    /\ app = "fluency"
    /\ interviewState = NOT_STARTED
    /\ \E t \in Texts : context' = t
    /\ UNCHANGED <<imageVars, envVars, captureVars, reportVars, interviewState, questions, currentQuestionIndex,
                   currentAnswer, feedback, finalReport, sessionHistory,
                   error, tasks, timers>>

\* onChange of the answer textarea: rendered with a question list, disabled
\* while isLoading or isRecording
SetCurrentAnswer ==
    /\ app = "fluency"
    /\ interviewState = AWAITING_ANSWER
    /\ Len(questions) > 0
    /\ ~isRecording
    /\ \E t \in Texts : currentAnswer' = t
    /\ UNCHANGED <<imageVars, envVars, captureVars, reportVars, interviewState, context, questions,
                   currentQuestionIndex, feedback, finalReport,
                   sessionHistory, error, tasks, timers>>

HandleStartSession ==
    /\ app = "fluency"
    /\ interviewState = NOT_STARTED
    /\ IF IsBlank(context)
       THEN /\ timers < MaxTimers
            /\ error' = "Please enter a context to practice."
            /\ timers' = timers + 1
            /\ UNCHANGED <<interviewState, tasks>>
       ELSE /\ Len(tasks) < MaxTasks
            /\ interviewState' = GENERATING_QUESTIONS
            /\ error' = ""
            /\ tasks' = Append(tasks, Resumed("start", "questions"))
            /\ UNCHANGED timers
    /\ UNCHANGED <<imageVars, envVars, captureVars, reportVars, context, questions, currentQuestionIndex,
                   currentAnswer, feedback, finalReport, sessionHistory>>

\* setTimeout(() => setError(''), 3000)
ClearErrorTimer ==
    /\ timers > 0
    /\ timers' = timers - 1
    /\ error' = ""
    /\ UNCHANGED <<imageVars, envVars, captureVars, reportVars, interviewState, context, questions,
                   currentQuestionIndex, currentAnswer, feedback,
                   finalReport, sessionHistory, tasks>>

\* a catch block that stores the message and leaves the phase as it was
CatchWithoutPhase(i, message) ==
    /\ error' = message
    /\ UNCHANGED interviewState
    /\ tasks' = RemoveAt(tasks, i)

\* The catch block of a handler suspended as tasks[i]
Catch(i, message) ==
    /\ error' = message
    /\ interviewState' = ERROR
    /\ tasks' = RemoveAt(tasks, i)

\* the continuation without the check of fetchedQuestions.length
StartSessionQuestionsOnUnchecked(i, r) ==
    /\ tasks[i].h = "start" /\ tasks[i].pc = "questions"
    /\ IF ~r.ok
       THEN /\ Catch(i, r.message)
            /\ UNCHANGED <<questions, currentQuestionIndex>>
       ELSE /\ questions' = r.value
            /\ currentQuestionIndex' = 0
            /\ interviewState' = ASKING_QUESTION
            /\ tasks' = [tasks EXCEPT ![i].pc = "speech"]
            /\ UNCHANGED error
    /\ UNCHANGED <<imageVars, envVars, captureVars, reportVars, context, currentAnswer, feedback, finalReport,
                   sessionHistory, timers>>

\* await geminiService.generateQuestions(context) settles
StartSessionQuestionsOn(i, r) ==
    /\ tasks[i].h = "start" /\ tasks[i].pc = "questions"
    /\ IF ~r.ok
       THEN /\ Catch(i, r.message)
            /\ UNCHANGED <<questions, currentQuestionIndex>>
       ELSE IF Len(r.value) = 0
       THEN /\ Catch(i, "No questions were generated for this context.")
            /\ UNCHANGED <<questions, currentQuestionIndex>>
       ELSE /\ questions' = r.value
            /\ currentQuestionIndex' = 0
            /\ interviewState' = ASKING_QUESTION
            /\ tasks' = [tasks EXCEPT ![i].pc = "speech"]
            /\ UNCHANGED error
    /\ UNCHANGED <<imageVars, envVars, captureVars, reportVars, context, currentAnswer, feedback, finalReport,
                   sessionHistory, timers>>

StartSessionQuestions ==
    \E i \in DOMAIN tasks : \E r \in generateQuestions : StartSessionQuestionsOn(i, r)

\* await geminiService.textToSpeech(fetchedQuestions[0]) settles
StartSessionSpeechOn(i, r) ==
    /\ tasks[i].h = "start" /\ tasks[i].pc = "speech"
    /\ IF r.ok
       THEN /\ tasks' = [tasks EXCEPT ![i].pc = "play"]
            /\ UNCHANGED <<interviewState, error>>
       ELSE Catch(i, r.message)
    /\ UNCHANGED <<imageVars, envVars, captureVars, reportVars, context, questions, currentQuestionIndex,
                   currentAnswer, feedback, finalReport, sessionHistory,
                   timers>>

StartSessionSpeech ==
    \E i \in DOMAIN tasks : \E r \in textToSpeech : StartSessionSpeechOn(i, r)

\* await playAudio(audioData) settles
StartSessionPlayedOn(i, r) ==
    /\ tasks[i].h = "start" /\ tasks[i].pc = "play"
    /\ IF r.ok
       THEN /\ interviewState' = AWAITING_ANSWER
            /\ tasks' = RemoveAt(tasks, i)
            /\ UNCHANGED error
       ELSE Catch(i, r.message)
    /\ UNCHANGED <<imageVars, envVars, captureVars, reportVars, context, questions, currentQuestionIndex,
                   currentAnswer, feedback, finalReport, sessionHistory,
                   timers>>

StartSessionPlayed ==
    \E i \in DOMAIN tasks : \E r \in playAudio : StartSessionPlayedOn(i, r)

\* evaluations still to come, each of which appends one history item
PendingEvaluations ==
    Cardinality({i \in DOMAIN tasks : tasks[i].pc = "evaluate"})

HandleSubmitAnswer ==
    /\ app = "fluency"
    /\ interviewState = AWAITING_ANSWER
    /\ ~isRecording
    /\ IF IsBlank(currentAnswer)
       THEN UNCHANGED <<interviewState, error, tasks>>
       ELSE /\ Len(tasks) < MaxTasks
            /\ Len(sessionHistory) + PendingEvaluations < MaxHistory
            /\ interviewState' = EVALUATING_ANSWER
            /\ error' = ""
            /\ tasks' = Append(tasks,
                   Task("submit", "evaluate",
                        At(questions, currentQuestionIndex), currentAnswer, <<>>))
    /\ UNCHANGED <<imageVars, envVars, captureVars, reportVars, context, questions, currentQuestionIndex,
                   currentAnswer, feedback, finalReport, sessionHistory,
                   timers>>

\* a continuation that stores the new entry in place of the history
SubmitAnswerEvaluatedOnReplacing(i, r) ==
    /\ tasks[i].h = "submit" /\ tasks[i].pc = "evaluate"
    /\ IF r.ok
       THEN /\ feedback' = r.value
            /\ sessionHistory' =
                   <<HistoryItem(tasks[i].question, tasks[i].answer, r.value)>>
            /\ interviewState' = SHOWING_FEEDBACK
            /\ tasks' = [tasks EXCEPT ![i] = Resumed("submit", "speech")]
            /\ UNCHANGED error
       ELSE /\ Catch(i, r.message)
            /\ UNCHANGED <<feedback, sessionHistory>>
    /\ UNCHANGED <<imageVars, envVars, captureVars, reportVars, context,
                   questions, currentQuestionIndex, currentAnswer,
                   finalReport, timers>>

\* await geminiService.evaluateAnswer(currentQuestion, currentAnswer, context)
\* settles
SubmitAnswerEvaluatedOn(i, r) ==
    /\ tasks[i].h = "submit" /\ tasks[i].pc = "evaluate"
    /\ IF r.ok
       THEN /\ feedback' = r.value
            /\ sessionHistory' = Append(sessionHistory,
                   HistoryItem(tasks[i].question, tasks[i].answer, r.value))
            /\ interviewState' = SHOWING_FEEDBACK
            /\ tasks' = [tasks EXCEPT ![i] = Resumed("submit", "speech")]
            /\ UNCHANGED error
       ELSE /\ Catch(i, r.message)
            /\ UNCHANGED <<feedback, sessionHistory>>
    /\ UNCHANGED <<imageVars, envVars, captureVars, reportVars, context, questions, currentQuestionIndex,
                   currentAnswer, finalReport, timers>>

SubmitAnswerEvaluated ==
    \E i \in DOMAIN tasks : \E r \in evaluateAnswer : SubmitAnswerEvaluatedOn(i, r)

\* await geminiService.textToSpeech(feedbackIntro) settles
SubmitAnswerSpeechOn(i, r) ==
    /\ tasks[i].h = "submit" /\ tasks[i].pc = "speech"
    /\ IF r.ok
       THEN /\ tasks' = [tasks EXCEPT ![i].pc = "play"]
            /\ UNCHANGED <<interviewState, error>>
       ELSE Catch(i, r.message)
    /\ UNCHANGED <<imageVars, envVars, captureVars, reportVars, context, questions, currentQuestionIndex,
                   currentAnswer, feedback, finalReport, sessionHistory,
                   timers>>

SubmitAnswerSpeech ==
    \E i \in DOMAIN tasks : \E r \in textToSpeech : SubmitAnswerSpeechOn(i, r)

\* await playAudio(audioData) settles; the handler ends
SubmitAnswerPlayedOn(i, r) ==
    /\ tasks[i].h = "submit" /\ tasks[i].pc = "play"
    /\ IF r.ok
       THEN /\ tasks' = RemoveAt(tasks, i)
            /\ UNCHANGED <<interviewState, error>>
       ELSE Catch(i, r.message)
    /\ UNCHANGED <<imageVars, envVars, captureVars, reportVars, context, questions, currentQuestionIndex,
                   currentAnswer, feedback, finalReport, sessionHistory,
                   timers>>

SubmitAnswerPlayed ==
    \E i \in DOMAIN tasks : \E r \in playAudio : SubmitAnswerPlayedOn(i, r)

HandleNextQuestion ==
    /\ app = "fluency"
    /\ interviewState = SHOWING_FEEDBACK
    /\ Len(tasks) < MaxTasks
    /\ feedback' = Null
    /\ IF MoreQuestions(currentQuestionIndex, questions)
       THEN /\ currentQuestionIndex' = currentQuestionIndex + 1
            /\ currentAnswer' = <<>>
            /\ interviewState' = ASKING_QUESTION
            /\ tasks' = Append(tasks, Resumed("next", "speech"))
            /\ UNCHANGED reportVars
       ELSE /\ interviewState' = GENERATING_REPORT
            /\ tasks' = Append(tasks,
                   Resumed("report", "report"))
            /\ ReportRequested(sessionHistory)
            /\ UNCHANGED <<currentQuestionIndex, currentAnswer>>
    /\ UNCHANGED <<imageVars, envVars, captureVars, context, questions, finalReport,
                   sessionHistory, error, timers>>

\* await geminiService.textToSpeech(questions[nextIndex]) settles; this branch
\* has no try/catch, so a rejection ends the handler and changes nothing
NextQuestionSpeechOn(i, r) ==
    /\ tasks[i].h = "next" /\ tasks[i].pc = "speech"
    /\ IF r.ok
       THEN tasks' = [tasks EXCEPT ![i].pc = "play"]
       ELSE tasks' = RemoveAt(tasks, i)
    /\ UNCHANGED <<imageVars, envVars, captureVars, reportVars, interviewState, context, questions,
                   currentQuestionIndex, currentAnswer, feedback,
                   finalReport, sessionHistory, error, timers>>

NextQuestionSpeech ==
    \E i \in DOMAIN tasks : \E r \in textToSpeech : NextQuestionSpeechOn(i, r)

\* await playAudio(audioData) settles
NextQuestionPlayedOn(i, r) ==
    /\ tasks[i].h = "next" /\ tasks[i].pc = "play"
    /\ IF r.ok
       THEN interviewState' = AWAITING_ANSWER
       ELSE UNCHANGED interviewState
    /\ tasks' = RemoveAt(tasks, i)
    /\ UNCHANGED <<imageVars, envVars, captureVars, reportVars, context, questions, currentQuestionIndex,
                   currentAnswer, feedback, finalReport, sessionHistory,
                   error, timers>>

NextQuestionPlayed ==
    \E i \in DOMAIN tasks : \E r \in playAudio : NextQuestionPlayedOn(i, r)

\* the continuation without setFinalReport(report)
NextQuestionReportOnKeepsNull(i, r) ==
    /\ tasks[i].h = "report" /\ tasks[i].pc = "report"
    /\ IF r.ok
       THEN /\ interviewState' = COMPLETED
            /\ tasks' = RemoveAt(tasks, i)
            /\ UNCHANGED error
       ELSE Catch(i, r.message)
    /\ UNCHANGED <<imageVars, envVars, captureVars, reportVars, context, questions, currentQuestionIndex,
                   currentAnswer, feedback, finalReport, sessionHistory, timers>>

\* await geminiService.generateFinalReport(context, sessionHistory) settles
NextQuestionReportOn(i, r) ==
    /\ tasks[i].h = "report" /\ tasks[i].pc = "report"
    /\ IF r.ok
       THEN /\ finalReport' = r.value
            /\ interviewState' = COMPLETED
            /\ tasks' = RemoveAt(tasks, i)
            /\ UNCHANGED error
       ELSE /\ Catch(i, r.message)
            /\ UNCHANGED finalReport
    /\ UNCHANGED <<imageVars, envVars, captureVars, reportVars, context, questions, currentQuestionIndex,
                   currentAnswer, feedback, sessionHistory, timers>>

NextQuestionReport ==
    \E i \in DOMAIN tasks : \E r \in generateFinalReport : NextQuestionReportOn(i, r)

\* a restart that keeps the history of the session it ends
HandleRestartKeepsHistory ==
    /\ app = "fluency"
    /\ interviewState \in {COMPLETED, ERROR}
    /\ interviewState' = NOT_STARTED
    /\ context' = <<>>
    /\ questions' = <<>>
    /\ currentQuestionIndex' = 0
    /\ currentAnswer' = <<>>
    /\ feedback' = Null
    /\ finalReport' = Null
    /\ error' = ""
    /\ ReportsForgotten
    /\ UNCHANGED <<imageVars, envVars, captureVars, sessionHistory, tasks,
                   timers>>

\* the restart button, rendered in COMPLETED and in ERROR
HandleRestart ==
    /\ app = "fluency"
    /\ interviewState \in {COMPLETED, ERROR}
    /\ interviewState' = NOT_STARTED
    /\ context' = <<>>
    /\ questions' = <<>>
    /\ currentQuestionIndex' = 0
    /\ currentAnswer' = <<>>
    /\ feedback' = Null
    /\ finalReport' = Null
    /\ sessionHistory' = <<>>
    /\ error' = ""
    /\ ReportsForgotten
    /\ UNCHANGED <<imageVars, envVars, captureVars, tasks, timers>>

----------------------------------------------------------------------------
(* Voice capture in the fluency coach: the useLiveConversation hook and the *)
(* App code around it.  Each startRecording call is numbered; the session, *)
(* the microphone stream, the AudioContext and the node graph it creates   *)
(* carry its number.                                                       *)

\* what the capture code never writes
sessionVars == <<imageVars, envVars, reportVars, fluencyVars, context,
                 questions, currentQuestionIndex, finalReport, error>>

\* ai.live.connect(...) and navigator.mediaDevices.getUserMedia(...)
\* either can fail whatever the coaching service does
connect == {Ok("session"), Err("connect failed")}
getUserMedia == {Ok("stream"), Err("Permission denied")}

\* The body of stopRecording past its guard, run n times on the same refs:
\* the nodes are disconnected and the tracks stopped at once, the context
\* and the session are closed by a timer, one per run.
StopRecordingRuns(n) ==
    /\ teardowns + n <= MaxTeardowns
    /\ isRecording' = FALSE
    /\ connectedGraphs' = connectedGraphs \ {processorRef}
    /\ liveStreams' = liveStreams \ {mediaStreamRef}
    /\ teardowns' = teardowns + n

\* a record button that is rendered in every phase
HandleStartRecordingInAnyPhase ==
    /\ app = "fluency"
    /\ ~isRecording
    /\ captures < MaxCaptures
    /\ Len(tasks) < MaxTasks
    /\ currentAnswer' = <<>>
    /\ transcript' = <<>>
    /\ isRecording' = TRUE
    /\ captures' = captures + 1
    /\ tasks' = Append(tasks,
           TaskImg("record", "connect", Undefined, <<>>, <<>>, Null,
                   captures + 1, <<>>))
    /\ UNCHANGED <<sessionVars, turnRefs, frameVars, captureRefs, captureResources, teardowns>>

\* The record button while not recording (rendered in AWAITING_ANSWER):
\* handleStartRecording, then startRecording up to its first await; limit
\* caps the number of captures of a run.
HandleStartRecordingUpTo(limit) ==
    /\ app = "fluency"
    /\ interviewState = AWAITING_ANSWER
    /\ ~isRecording
    /\ captures < limit
    /\ Len(tasks) < MaxTasks
    /\ currentAnswer' = <<>>
    /\ transcript' = <<>>
    /\ isRecording' = TRUE
    /\ captures' = captures + 1
    /\ tasks' = Append(tasks,
           TaskImg("record", "connect", Undefined, <<>>, <<>>, Null,
                   captures + 1, <<>>))
    /\ UNCHANGED <<sessionVars, turnRefs, frameVars, captureRefs,
                   captureResources, teardowns>>

HandleStartRecording == HandleStartRecordingUpTo(MaxCaptures)

\* The record button while recording: stopRecording.  The state change
\* re-creates stopRecording, so the App's effect on [stopRecording] runs its
\* cleanup, which calls the previous stopRecording (whose closure still sees
\* isRecording true): the body runs twice.
StopRecording ==
    /\ app = "fluency"
    /\ interviewState = AWAITING_ANSWER
    /\ isRecording
    /\ StopRecordingRuns(2)
    /\ UNCHANGED <<sessionVars, turnRefs, frameVars, currentAnswer, tasks, transcript, captureRefs,
                   openSessions, openContexts, captures>>

\* The catch block of startRecording: setIsRecording(false) and an alert.
\* When that changes isRecording, the same effect cleanup runs the body of
\* stopRecording once.
StartRecordingFailed ==
    IF isRecording
    THEN StopRecordingRuns(1)
    ELSE UNCHANGED <<isRecording, connectedGraphs, liveStreams, teardowns>>

\* sessionRef.current = await sessionPromise settles
StartRecordingConnectedOn(i, r) ==
    /\ tasks[i].h = "record" /\ tasks[i].pc = "connect"
    /\ IF r.ok
       THEN /\ sessionRef' = tasks[i].index
            /\ openSessions' = openSessions \cup {tasks[i].index}
            /\ tasks' = [tasks EXCEPT ![i].pc = "media"]
            /\ UNCHANGED <<isRecording, connectedGraphs, liveStreams,
                           teardowns>>
       ELSE /\ StartRecordingFailed
            /\ tasks' = RemoveAt(tasks, i)
            /\ UNCHANGED <<sessionRef, openSessions>>
    /\ UNCHANGED <<sessionVars, turnRefs, frameVars, currentAnswer, transcript, audioContextRef,
                   processorRef, mediaStreamRef, openContexts, captures>>

StartRecordingConnected ==
    \E i \in DOMAIN tasks : \E r \in connect : StartRecordingConnectedOn(i, r)

\* a refused microphone that ends the session in ERROR
StartRecordingMediaOnAsSessionError(i, r) ==
    /\ tasks[i].h = "record" /\ tasks[i].pc = "media"
    /\ ~r.ok
    /\ StartRecordingFailed
    /\ interviewState' = ERROR
    /\ error' = r.message
    /\ tasks' = RemoveAt(tasks, i)
    /\ UNCHANGED <<imageVars, envVars, reportVars, feedback, sessionHistory,
                   timers, context, questions, currentQuestionIndex,
                   finalReport, turnRefs, frameVars, currentAnswer,
                   transcript, captureRefs, openSessions, openContexts,
                   captures>>

\* await getUserMedia settles; on success the context and the nodes are
\* created and connected in the same run
StartRecordingMediaOn(i, r) ==
    /\ tasks[i].h = "record" /\ tasks[i].pc = "media"
    /\ IF r.ok
       THEN /\ mediaStreamRef' = tasks[i].index
            /\ audioContextRef' = tasks[i].index
            /\ processorRef' = tasks[i].index
            /\ liveStreams' = liveStreams \cup {tasks[i].index}
            /\ openContexts' = openContexts \cup {tasks[i].index}
            /\ connectedGraphs' = connectedGraphs \cup {tasks[i].index}
            /\ UNCHANGED <<isRecording, teardowns>>
       ELSE /\ StartRecordingFailed
            /\ UNCHANGED <<mediaStreamRef, audioContextRef, processorRef,
                           openContexts>>
    /\ tasks' = RemoveAt(tasks, i)
    /\ UNCHANGED <<sessionVars, turnRefs, frameVars, currentAnswer, transcript, sessionRef,
                   openSessions, captures>>

StartRecordingMedia ==
    \E i \in DOMAIN tasks : \E r \in getUserMedia : StartRecordingMediaOn(i, r)

\* a timer that closes the session and the context and keeps the handles
TeardownKeepsHandles ==
    /\ teardowns > 0
    /\ teardowns' = teardowns - 1
    /\ openContexts' = openContexts \ {audioContextRef}
    /\ openSessions' = openSessions \ {sessionRef}
    /\ UNCHANGED <<sessionVars, turnRefs, frameVars, currentAnswer, tasks,
                   isRecording, transcript, captureRefs, connectedGraphs,
                   liveStreams, captures>>

\* the timer of stopRecording fires
Teardown ==
    /\ teardowns > 0
    /\ teardowns' = teardowns - 1
    /\ openContexts' = openContexts \ {audioContextRef}
    /\ openSessions' = openSessions \ {sessionRef}
    /\ sessionRef' = NoCapture
    /\ audioContextRef' = NoCapture
    /\ processorRef' = NoCapture
    /\ mediaStreamRef' = NoCapture
    /\ UNCHANGED <<sessionVars, turnRefs, frameVars, currentAnswer, tasks, isRecording, transcript,
                   connectedGraphs, liveStreams, captures>>

\* A LiveServerMessage: text is the inputTranscription it carries (<<>> when
\* it carries none), turnComplete whether it ends the speaker's turn.
Message(text, turnComplete) == [text |-> text, turnComplete |-> turnComplete]

\* onmessage of an open session: the text of an input transcription is
\* appended to transcript (the handler reads nothing else of the message),
\* and the App's effect on [transcript] copies transcript into currentAnswer.
OnMessageOn(k, m) ==
    /\ app = "fluency"
    /\ k \in openSessions
    /\ transcript' = transcript \o m.text
    /\ currentAnswer' = IF transcript' # transcript THEN transcript'
                                                    ELSE currentAnswer
    /\ UNCHANGED <<sessionVars, turnRefs, frameVars, tasks, isRecording,
                   captureRefs, captureResources, captures, teardowns>>

TranscriptionMessageOn(k) ==
    /\ Len(transcript) < MaxTranscript
    /\ OnMessageOn(k, Message(<<"a">>, FALSE))

TranscriptionMessage == \E k \in openSessions : TranscriptionMessageOn(k)

----------------------------------------------------------------------------
(* What both capture hooks do with the audio and with the transport.  The  *)
(* callbacks were created by the startRecording (startTranscription) call  *)
(* of a render in which isRecording was false, and they keep that render's *)
(* stopRecording (stopTranscription): called from a callback, it returns   *)
(* at its guard.                                                           *)

\* onerror and onclose of an open session, the transport failing or the
\* server closing it: onerror calls the stopRecording of its closure, onclose
\* logs (in useSpeechToText it tests the isRecording of its closure first)
TransportLostOn(k) ==
    /\ k \in openSessions
    /\ openSessions' = openSessions \ {k}
    /\ UNCHANGED <<sessionVars, turnRefs, frameVars, currentAnswer, tasks,
                   isRecording, transcript, captureRefs, openContexts,
                   connectedGraphs, liveStreams, captures, teardowns>>

TransportLost == \E k \in openSessions : TransportLostOn(k)

\* processor.onaudioprocess of a connected graph in a running context:
\* createBlob, then sessionPromise.then(...) registers the send
AudioProcessOn(k) ==
    /\ k \in connectedGraphs \cap openContexts
    /\ frameCount < MaxFrames
    /\ frameCount' = frameCount + 1
    /\ pendingFrames' = Append(pendingFrames, frameCount + 1)
    /\ pcmBlob' = createBlob(inputBuffer)
    /\ UNCHANGED <<sessionVars, turnRefs, currentAnswer, tasks, isRecording,
                   transcript, captureRefs, captureResources, captures,
                   teardowns, sentFrames, inputBuffer>>

AudioProcess == \E k \in connectedGraphs : AudioProcessOn(k)

\* session.sendRealtimeInput({ media: pcmBlob })
sendRealtimeInput == {Ok("sent"), Err("send failed")}

\* a pending reaction that runs out of turn
FrameSendOnAnyOrder(r) ==
    /\ pendingFrames # <<>>
    /\ \E j \in DOMAIN pendingFrames :
          /\ pendingFrames' = RemoveAt(pendingFrames, j)
          /\ sentFrames' = IF r.ok THEN Append(sentFrames, pendingFrames[j])
                                   ELSE sentFrames
    /\ UNCHANGED <<sessionVars, turnRefs, currentAnswer, tasks, isRecording,
                   transcript, captureRefs, captureResources, captures,
                   teardowns, frameCount, inputBuffer, pcmBlob>>

\* The reaction registered first runs (reactions of settled promises run in
\* the order they were registered).  When the send throws, useLiveConversation
\* has no handler and useSpeechToText's catch calls the stopTranscription of
\* its closure: the frame is lost and nothing else changes.
FrameSendOn(r) ==
    /\ pendingFrames # <<>>
    /\ pendingFrames' = Tail(pendingFrames)
    /\ sentFrames' = IF r.ok THEN Append(sentFrames, Head(pendingFrames))
                             ELSE sentFrames
    /\ UNCHANGED <<sessionVars, turnRefs, currentAnswer, tasks, isRecording,
                   transcript, captureRefs, captureResources, captures,
                   teardowns, frameCount, inputBuffer, pcmBlob>>

FrameSend == \E r \in sendRealtimeInput : FrameSendOn(r)

----------------------------------------------------------------------------
(* Voice capture in the image variant: the useSpeechToText hook.  Its      *)
(* record button is rendered on the session screen, disabled while         *)
(* isLoading; the App has no effect on [stopTranscription].                *)

\* the record button while not recording: startTranscription up to its
\* first await
StartTranscription ==
    /\ app = "image"
    /\ appState = SESSION_ACTIVE
    /\ ~isLoading
    /\ ~isRecording
    /\ captures < MaxStarts
    /\ Len(tasks) < MaxTasks
    /\ transcript' = <<>>
    /\ fullTranscriptRef' = <<>>
    /\ currentTurnTranscriptRef' = <<>>
    /\ isRecording' = TRUE
    /\ captures' = captures + 1
    /\ tasks' = Append(tasks,
           TaskImg("transcribe", "connect", Undefined, <<>>, <<>>, Null,
                   captures + 1, <<>>))
    /\ UNCHANGED <<sessionVars, frameVars, currentAnswer, captureRefs,
                   captureResources, teardowns>>

\* the record button while recording: stopTranscription, whose body is that
\* of stopRecording
StopTranscription ==
    /\ app = "image"
    /\ appState = SESSION_ACTIVE
    /\ ~isLoading
    /\ isRecording
    /\ StopRecordingRuns(1)
    /\ UNCHANGED <<sessionVars, turnRefs, frameVars, currentAnswer, tasks,
                   transcript, captureRefs, openSessions, openContexts,
                   captures>>

\* sessionRef.current = await sessionPromise settles; the catch block sets
\* isRecording to false and alerts
StartTranscriptionConnectedOn(i, r) ==
    /\ tasks[i].h = "transcribe" /\ tasks[i].pc = "connect"
    /\ IF r.ok
       THEN /\ sessionRef' = tasks[i].index
            /\ openSessions' = openSessions \cup {tasks[i].index}
            /\ tasks' = [tasks EXCEPT ![i].pc = "media"]
            /\ UNCHANGED isRecording
       ELSE /\ isRecording' = FALSE
            /\ tasks' = RemoveAt(tasks, i)
            /\ UNCHANGED <<sessionRef, openSessions>>
    /\ UNCHANGED <<sessionVars, turnRefs, frameVars, currentAnswer,
                   transcript, audioContextRef, processorRef, mediaStreamRef,
                   openContexts, connectedGraphs, liveStreams, captures,
                   teardowns>>

StartTranscriptionConnected ==
    \E i \in DOMAIN tasks : \E r \in connect :
        StartTranscriptionConnectedOn(i, r)

\* await getUserMedia settles; on success the context and the nodes are
\* created and connected in the same run
StartTranscriptionMediaOn(i, r) ==
    /\ tasks[i].h = "transcribe" /\ tasks[i].pc = "media"
    /\ IF r.ok
       THEN /\ mediaStreamRef' = tasks[i].index
            /\ audioContextRef' = tasks[i].index
            /\ processorRef' = tasks[i].index
            /\ liveStreams' = liveStreams \cup {tasks[i].index}
            /\ openContexts' = openContexts \cup {tasks[i].index}
            /\ connectedGraphs' = connectedGraphs \cup {tasks[i].index}
            /\ UNCHANGED isRecording
       ELSE /\ isRecording' = FALSE
            /\ UNCHANGED <<mediaStreamRef, audioContextRef, processorRef,
                           liveStreams, openContexts, connectedGraphs>>
    /\ tasks' = RemoveAt(tasks, i)
    /\ UNCHANGED <<sessionVars, turnRefs, frameVars, currentAnswer,
                   transcript, sessionRef, openSessions, captures, teardowns>>

StartTranscriptionMedia ==
    \E i \in DOMAIN tasks : \E r \in getUserMedia :
        StartTranscriptionMediaOn(i, r)

\* an onmessage that commits a turn without emptying the open turn
OnMessageImgOnKeepingTurn(k, m) ==
    /\ app = "image"
    /\ k \in openSessions
    /\ LET current == currentTurnTranscriptRef \o m.text
           full == IF m.turnComplete
                   THEN fullTranscriptRef \o current \o <<" ">>
                   ELSE fullTranscriptRef
       IN  /\ currentTurnTranscriptRef' = current
           /\ fullTranscriptRef' = full
           /\ transcript' = IF m.turnComplete THEN full
                            ELSE IF m.text # <<>>
                                 THEN fullTranscriptRef \o current
                                 ELSE transcript
    /\ currentAnswer' = IF transcript' # transcript /\ transcript' # <<>>
                        THEN transcript' ELSE currentAnswer
    /\ UNCHANGED <<sessionVars, frameVars, tasks, isRecording, captureRefs,
                   captureResources, captures, teardowns>>

\* onmessage of an open session: an input transcription extends the open
\* turn, a turn completion commits the open turn and a space; the App's
\* effect on [transcript] copies a non-empty transcript into currentAnswer.
OnMessageImgOn(k, m) ==
    /\ app = "image"
    /\ k \in openSessions
    /\ LET current == currentTurnTranscriptRef \o m.text
           full == IF m.turnComplete
                   THEN fullTranscriptRef \o current \o <<" ">>
                   ELSE fullTranscriptRef
       IN  /\ currentTurnTranscriptRef' = IF m.turnComplete THEN <<>>
                                                            ELSE current
           /\ fullTranscriptRef' = full
           /\ transcript' = IF m.turnComplete THEN full
                            ELSE IF m.text # <<>>
                                 THEN fullTranscriptRef \o current
                                 ELSE transcript
    /\ currentAnswer' = IF transcript' # transcript /\ transcript' # <<>>
                        THEN transcript' ELSE currentAnswer
    /\ UNCHANGED <<sessionVars, frameVars, tasks, isRecording, captureRefs,
                   captureResources, captures, teardowns>>

----------------------------------------------------------------------------
(* The basic interview coach (no context, no history, no report).  Its     *)
(* client is not among the repository's files; its calls settle like those *)
(* of the client that is.                                                  *)

SetCurrentAnswerBasic ==
    /\ app = "basic"
    /\ interviewState = AWAITING_ANSWER
    /\ Len(questions) > 0
    /\ \E t \in Texts : currentAnswer' = t
    /\ UNCHANGED <<imageVars, envVars, captureVars, reportVars, interviewState, context, questions,
                   currentQuestionIndex, feedback, finalReport,
                   sessionHistory, error, tasks, timers>>

HandleStartInterview ==
    /\ app = "basic"
    /\ interviewState = NOT_STARTED
    /\ Len(tasks) < MaxTasks
    /\ interviewState' = GENERATING_QUESTIONS
    /\ error' = ""
    /\ tasks' = Append(tasks, Resumed("startBasic", "questions"))
    /\ UNCHANGED <<imageVars, envVars, captureVars, reportVars, context, questions, currentQuestionIndex,
                   currentAnswer, feedback, finalReport, sessionHistory,
                   timers>>

\* await geminiService.generateQuestions() settles
StartInterviewQuestionsOn(i, r) ==
    /\ tasks[i].h = "startBasic" /\ tasks[i].pc = "questions"
    /\ IF ~r.ok
       THEN /\ Catch(i, r.message)
            /\ UNCHANGED <<questions, currentQuestionIndex>>
       ELSE IF Len(r.value) = 0
       THEN /\ Catch(i, "No questions were generated.")
            /\ UNCHANGED <<questions, currentQuestionIndex>>
       ELSE /\ questions' = r.value
            /\ currentQuestionIndex' = 0
            /\ interviewState' = ASKING_QUESTION
            /\ tasks' = [tasks EXCEPT ![i].pc = "speech"]
            /\ UNCHANGED error
    /\ UNCHANGED <<imageVars, envVars, captureVars, reportVars, context, currentAnswer, feedback,
                   finalReport, sessionHistory, timers>>

StartInterviewQuestions ==
    \E i \in DOMAIN tasks : \E r \in generateQuestions : StartInterviewQuestionsOn(i, r)

\* await geminiService.textToSpeech(fetchedQuestions[0]) settles
StartInterviewSpeechOn(i, r) ==
    /\ tasks[i].h = "startBasic" /\ tasks[i].pc = "speech"
    /\ IF r.ok
       THEN /\ tasks' = [tasks EXCEPT ![i].pc = "play"]
            /\ UNCHANGED <<interviewState, error>>
       ELSE Catch(i, r.message)
    /\ UNCHANGED <<imageVars, envVars, captureVars, reportVars, context, questions,
                   currentQuestionIndex, currentAnswer, feedback,
                   finalReport, sessionHistory, timers>>

StartInterviewSpeech ==
    \E i \in DOMAIN tasks : \E r \in textToSpeech : StartInterviewSpeechOn(i, r)

\* await playAudio(audioData) settles
StartInterviewPlayedOn(i, r) ==
    /\ tasks[i].h = "startBasic" /\ tasks[i].pc = "play"
    /\ IF r.ok
       THEN /\ interviewState' = AWAITING_ANSWER
            /\ tasks' = RemoveAt(tasks, i)
            /\ UNCHANGED error
       ELSE Catch(i, r.message)
    /\ UNCHANGED <<imageVars, envVars, captureVars, reportVars, context, questions,
                   currentQuestionIndex, currentAnswer, feedback,
                   finalReport, sessionHistory, timers>>

StartInterviewPlayed ==
    \E i \in DOMAIN tasks : \E r \in playAudio : StartInterviewPlayedOn(i, r)

HandleSubmitAnswerBasic ==
    /\ app = "basic"
    /\ interviewState = AWAITING_ANSWER
    /\ IF IsBlank(currentAnswer)
       THEN UNCHANGED <<interviewState, error, tasks>>
       ELSE /\ Len(tasks) < MaxTasks
            /\ interviewState' = EVALUATING_ANSWER
            /\ error' = ""
            /\ tasks' = Append(tasks,
                   Task("submitBasic", "evaluate",
                        At(questions, currentQuestionIndex), currentAnswer, <<>>))
    /\ UNCHANGED <<imageVars, envVars, captureVars, reportVars, context, questions, currentQuestionIndex,
                   currentAnswer, feedback, finalReport, sessionHistory,
                   timers>>

\* await geminiService.evaluateAnswer(currentQuestion, currentAnswer) settles
SubmitAnswerBasicEvaluatedOn(i, r) ==
    /\ tasks[i].h = "submitBasic" /\ tasks[i].pc = "evaluate"
    /\ IF r.ok
       THEN /\ feedback' = r.value
            /\ interviewState' = SHOWING_FEEDBACK
            /\ tasks' = [tasks EXCEPT ![i] = Resumed("submitBasic", "speech")]
            /\ UNCHANGED error
       ELSE /\ Catch(i, r.message)
            /\ UNCHANGED feedback
    /\ UNCHANGED <<imageVars, envVars, captureVars, reportVars, context, questions,
                   currentQuestionIndex, currentAnswer, finalReport,
                   sessionHistory, timers>>

SubmitAnswerBasicEvaluated ==
    \E i \in DOMAIN tasks : \E r \in evaluateAnswer : SubmitAnswerBasicEvaluatedOn(i, r)

\* await geminiService.textToSpeech(...) settles
SubmitAnswerBasicSpeechOn(i, r) ==
    /\ tasks[i].h = "submitBasic" /\ tasks[i].pc = "speech"
    /\ IF r.ok
       THEN /\ tasks' = [tasks EXCEPT ![i].pc = "play"]
            /\ UNCHANGED <<interviewState, error>>
       ELSE Catch(i, r.message)
    /\ UNCHANGED <<imageVars, envVars, captureVars, reportVars, context, questions,
                   currentQuestionIndex, currentAnswer, feedback,
                   finalReport, sessionHistory, timers>>

SubmitAnswerBasicSpeech ==
    \E i \in DOMAIN tasks : \E r \in textToSpeech : SubmitAnswerBasicSpeechOn(i, r)

\* await playAudio(audioData) settles; the handler ends
SubmitAnswerBasicPlayedOn(i, r) ==
    /\ tasks[i].h = "submitBasic" /\ tasks[i].pc = "play"
    /\ IF r.ok
       THEN /\ tasks' = RemoveAt(tasks, i)
            /\ UNCHANGED <<interviewState, error>>
       ELSE Catch(i, r.message)
    /\ UNCHANGED <<imageVars, envVars, captureVars, reportVars, context, questions,
                   currentQuestionIndex, currentAnswer, feedback,
                   finalReport, sessionHistory, timers>>

SubmitAnswerBasicPlayed ==
    \E i \in DOMAIN tasks : \E r \in playAudio : SubmitAnswerBasicPlayedOn(i, r)

HandleNextQuestionBasic ==
    /\ app = "basic"
    /\ interviewState = SHOWING_FEEDBACK
    /\ IF MoreQuestions(currentQuestionIndex, questions)
       THEN /\ Len(tasks) < MaxTasks
            /\ currentQuestionIndex' = currentQuestionIndex + 1
            /\ currentAnswer' = <<>>
            /\ feedback' = ""
            /\ interviewState' = ASKING_QUESTION
            /\ tasks' = Append(tasks, Resumed("nextBasic", "speech"))
       ELSE /\ interviewState' = COMPLETED
            /\ UNCHANGED <<currentQuestionIndex, currentAnswer, feedback, tasks>>
    /\ UNCHANGED <<imageVars, envVars, captureVars, reportVars, context, questions, finalReport,
                   sessionHistory, error, timers>>

\* await geminiService.textToSpeech(questions[nextIndex]) settles (no try/catch)
NextQuestionBasicSpeechOn(i, r) ==
    /\ tasks[i].h = "nextBasic" /\ tasks[i].pc = "speech"
    /\ IF r.ok
       THEN tasks' = [tasks EXCEPT ![i].pc = "play"]
       ELSE tasks' = RemoveAt(tasks, i)
    /\ UNCHANGED <<imageVars, envVars, captureVars, reportVars, interviewState, context, questions,
                   currentQuestionIndex, currentAnswer, feedback,
                   finalReport, sessionHistory, error, timers>>

NextQuestionBasicSpeech ==
    \E i \in DOMAIN tasks : \E r \in textToSpeech : NextQuestionBasicSpeechOn(i, r)

\* await playAudio(audioData) settles
NextQuestionBasicPlayedOn(i, r) ==
    /\ tasks[i].h = "nextBasic" /\ tasks[i].pc = "play"
    /\ IF r.ok
       THEN interviewState' = AWAITING_ANSWER
       ELSE UNCHANGED interviewState
    /\ tasks' = RemoveAt(tasks, i)
    /\ UNCHANGED <<imageVars, envVars, captureVars, reportVars, context, questions,
                   currentQuestionIndex, currentAnswer, feedback,
                   finalReport, sessionHistory, error, timers>>

NextQuestionBasicPlayed ==
    \E i \in DOMAIN tasks : \E r \in playAudio : NextQuestionBasicPlayedOn(i, r)

HandleRestartBasic ==
    /\ app = "basic"
    /\ interviewState \in {COMPLETED, ERROR}
    /\ interviewState' = NOT_STARTED
    /\ questions' = <<>>
    /\ currentQuestionIndex' = 0
    /\ currentAnswer' = <<>>
    /\ feedback' = ""
    /\ error' = ""
    /\ UNCHANGED <<imageVars, envVars, captureVars, reportVars, context, finalReport, sessionHistory,
                   tasks, timers>>

----------------------------------------------------------------------------
(* The image variant (illustrated questions; three screens and an          *)
(* isLoading flag instead of the nine phases).                             *)

SetContextImg ==
    /\ app = "image"
    /\ appState = CONTEXT_SELECTION
    /\ ~isLoading
    /\ \E t \in Texts : context' = t
    /\ UNCHANGED <<fluencyVars, imageVars, envVars, captureVars, reportVars, questions,
                   currentQuestionIndex, currentAnswer, finalReport, error,
                   tasks>>

SetCurrentAnswerImg ==
    /\ app = "image"
    /\ appState = SESSION_ACTIVE
    /\ ~isLoading
    /\ ~isRecording
    /\ \E t \in Texts : currentAnswer' = t
    /\ UNCHANGED <<fluencyVars, imageVars, envVars, captureVars, reportVars, context, questions,
                   currentQuestionIndex, finalReport, error, tasks>>

HandleStartSessionImg ==
    /\ app = "image"
    /\ appState = CONTEXT_SELECTION
    /\ ~isLoading
    /\ IF IsBlank(context)
       THEN UNCHANGED <<isLoading, error, tasks>>
       ELSE /\ Len(tasks) < MaxTasks
            /\ isLoading' = TRUE
            /\ error' = Null
            /\ tasks' = Append(tasks, Resumed("startImg", "questions"))
    /\ UNCHANGED <<fluencyVars, appState, history, currentImageUrl, envVars, captureVars, reportVars,
                   context, questions, currentQuestionIndex, currentAnswer,
                   finalReport>>

\* fetchQuestionData(questionData) called from the handler suspended as
\* tasks[i], which ends: the illustration is cleared and a new one requested
\* (the narration it also requests changes no state of the session)
FetchQuestionData(i, q) ==
    /\ currentImageUrl' = Null
    /\ tasks' = Append(RemoveAt(tasks, i),
                       Task("image", "image", q, <<>>, <<>>))

\* await geminiService.generateQuestions(context) settles
StartSessionImgQuestionsOn(i, r) ==
    /\ tasks[i].h = "startImg" /\ tasks[i].pc = "questions"
    /\ IF r.ok
       THEN /\ questions' = r.value
            /\ currentQuestionIndex' = 0
            /\ history' = <<>>
            /\ appState' = SESSION_ACTIVE
            /\ FetchQuestionData(i, At(r.value, 0))
            /\ UNCHANGED error
       ELSE /\ error' = "Failed to start session. Please try again."
            /\ tasks' = RemoveAt(tasks, i)
            /\ UNCHANGED <<questions, currentQuestionIndex, history,
                           appState, currentImageUrl>>
    /\ isLoading' = FALSE
    /\ UNCHANGED <<fluencyVars, envVars, captureVars, reportVars, context, currentAnswer,
                   finalReport>>

StartSessionImgQuestions ==
    \E i \in DOMAIN tasks : \E r \in generateQuestionData : StartSessionImgQuestionsOn(i, r)

\* an image request whose failure is stored as the error of the session
ImageGeneratedOnAsSessionError(i, r) ==
    /\ tasks[i].h = "image"
    /\ IF r.ok
       THEN currentImageUrl' = r.value /\ UNCHANGED error
       ELSE error' = r.message /\ UNCHANGED currentImageUrl
    /\ tasks' = RemoveAt(tasks, i)
    /\ UNCHANGED <<fluencyVars, appState, isLoading, history, envVars,
                   captureVars, reportVars, context, questions,
                   currentQuestionIndex, currentAnswer, finalReport>>

\* generateImage(questionData.imagePrompt).then(setCurrentImageUrl).catch(...)
ImageGeneratedOn(i, r) ==
    /\ tasks[i].h = "image"
    /\ IF r.ok
       THEN currentImageUrl' = r.value
       ELSE UNCHANGED currentImageUrl
    /\ tasks' = RemoveAt(tasks, i)
    /\ UNCHANGED <<fluencyVars, appState, isLoading, history, envVars, captureVars, reportVars,
                   context, questions, currentQuestionIndex,
                   currentAnswer, finalReport, error>>

ImageGenerated ==
    \E i \in DOMAIN tasks : \E r \in generateImage(tasks[i].question) : ImageGeneratedOn(i, r)

HandleAnswerSubmit ==
    /\ app = "image"
    /\ appState = SESSION_ACTIVE
    /\ ~isLoading
    /\ ~isRecording
    /\ IF IsBlank(currentAnswer)
       THEN UNCHANGED <<isLoading, error, tasks>>
       ELSE /\ Len(tasks) < MaxTasks
            /\ Len(history) < MaxHistory
            /\ isLoading' = TRUE
            /\ error' = Null
            /\ tasks' = Append(tasks,
                   TaskImg("submitImg", "evaluate",
                           At(questions, currentQuestionIndex), currentAnswer,
                           history, currentImageUrl, currentQuestionIndex,
                           questions))
    /\ UNCHANGED <<fluencyVars, appState, history, currentImageUrl, envVars, captureVars, reportVars,
                   context, questions, currentQuestionIndex, currentAnswer,
                   finalReport>>

\* await geminiService.evaluateAnswer(questionData.question, currentAnswer)
\* settles
AnswerSubmitEvaluatedOn(i, r) ==
    /\ tasks[i].h = "submitImg" /\ tasks[i].pc = "evaluate"
    /\ IF r.ok
       THEN LET newHistoryItem ==
                    HistoryItemImg(tasks[i].question, tasks[i].answer,
                                   r.value, tasks[i].imageUrl)
                updatedHistory == Append(tasks[i].history, newHistoryItem)
            IN  /\ history' = updatedHistory
                /\ currentAnswer' = <<>>
                /\ IF MoreQuestions(tasks[i].index, tasks[i].questions)
                   THEN /\ currentQuestionIndex' = tasks[i].index + 1
                        /\ FetchQuestionData(i,
                               At(tasks[i].questions, tasks[i].index + 1))
                        /\ isLoading' = FALSE
                        /\ UNCHANGED reportVars
                   ELSE /\ tasks' = [tasks EXCEPT ![i] = Resumed("submitImg", "report")]
                        /\ ReportRequested(updatedHistory)
                        /\ UNCHANGED <<currentQuestionIndex,
                                       currentImageUrl, isLoading>>
                /\ UNCHANGED error
       ELSE /\ error' = "Failed to evaluate answer. Please try again."
            /\ isLoading' = FALSE
            /\ tasks' = RemoveAt(tasks, i)
            /\ UNCHANGED <<history, currentAnswer, currentQuestionIndex,
                           currentImageUrl, reportVars>>
    /\ UNCHANGED <<fluencyVars, appState, envVars, captureVars, context, questions,
                   finalReport>>

AnswerSubmitEvaluated ==
    \E i \in DOMAIN tasks : \E r \in evaluateAnswer : AnswerSubmitEvaluatedOn(i, r)

\* await geminiService.generateFinalReport(updatedHistory) settles
AnswerSubmitReportOn(i, r) ==
    /\ tasks[i].h = "submitImg" /\ tasks[i].pc = "report"
    /\ IF r.ok
       THEN /\ finalReport' = r.value
            /\ appState' = FINAL_REPORT
            /\ UNCHANGED error
       ELSE /\ error' = "Failed to evaluate answer. Please try again."
            /\ UNCHANGED <<finalReport, appState>>
    /\ isLoading' = FALSE
    /\ tasks' = RemoveAt(tasks, i)
    /\ UNCHANGED <<fluencyVars, history, currentImageUrl, envVars, captureVars, reportVars,
                   context,
                   questions, currentQuestionIndex, currentAnswer>>

AnswerSubmitReport ==
    \E i \in DOMAIN tasks : \E r \in generateFinalReport : AnswerSubmitReportOn(i, r)

HandleNewSession ==
    /\ app = "image"
    /\ appState = FINAL_REPORT
    /\ appState' = CONTEXT_SELECTION
    /\ context' = <<>>
    /\ questions' = <<>>
    /\ currentQuestionIndex' = 0
    /\ currentAnswer' = <<>>
    /\ history' = <<>>
    /\ finalReport' = Null
    /\ error' = Null
    /\ currentImageUrl' = Null
    /\ ReportsForgotten
    /\ UNCHANGED <<fluencyVars, isLoading, envVars, captureVars, tasks>>

----------------------------------------------------------------------------

Next ==
    \/ SetContext
    \/ SetCurrentAnswer
    \/ HandleStartSession
    \/ ClearErrorTimer
    \/ StartSessionQuestions
    \/ StartSessionSpeech
    \/ StartSessionPlayed
    \/ HandleSubmitAnswer
    \/ SubmitAnswerEvaluated
    \/ SubmitAnswerSpeech
    \/ SubmitAnswerPlayed
    \/ HandleNextQuestion
    \/ NextQuestionSpeech
    \/ NextQuestionPlayed
    \/ NextQuestionReport
    \/ HandleRestart
    \/ SetCurrentAnswerBasic
    \/ HandleStartInterview
    \/ StartInterviewQuestions
    \/ StartInterviewSpeech
    \/ StartInterviewPlayed
    \/ HandleSubmitAnswerBasic
    \/ SubmitAnswerBasicEvaluated
    \/ SubmitAnswerBasicSpeech
    \/ SubmitAnswerBasicPlayed
    \/ HandleNextQuestionBasic
    \/ NextQuestionBasicSpeech
    \/ NextQuestionBasicPlayed
    \/ HandleRestartBasic
    \/ SetContextImg
    \/ SetCurrentAnswerImg
    \/ HandleStartSessionImg
    \/ StartSessionImgQuestions
    \/ ImageGenerated
    \/ HandleAnswerSubmit
    \/ AnswerSubmitEvaluated
    \/ AnswerSubmitReport
    \/ HandleNewSession

Spec == Init /\ [][Next]_vars

\* A request that was sent settles: the final report, awaited by the handler
\* that asked for it, arrives or fails.
FairSpec ==
    /\ Spec
    /\ WF_vars(NextQuestionReport)
    /\ WF_vars(AnswerSubmitReport)

\* The await at which the handler suspended as tasks[i] waits settles,
\* whichever handler it is: the request resolves or rejects, the narration
\* ends.
SettledOn(i) ==
    /\ i \in DOMAIN tasks
    /\ \/ \E r \in generateQuestions :
              StartSessionQuestionsOn(i, r) \/ StartInterviewQuestionsOn(i, r)
       \/ \E r \in textToSpeech :
              \/ StartSessionSpeechOn(i, r) \/ SubmitAnswerSpeechOn(i, r)
              \/ NextQuestionSpeechOn(i, r) \/ StartInterviewSpeechOn(i, r)
              \/ SubmitAnswerBasicSpeechOn(i, r)
              \/ NextQuestionBasicSpeechOn(i, r)
       \/ \E r \in playAudio :
              \/ StartSessionPlayedOn(i, r) \/ SubmitAnswerPlayedOn(i, r)
              \/ NextQuestionPlayedOn(i, r) \/ StartInterviewPlayedOn(i, r)
              \/ SubmitAnswerBasicPlayedOn(i, r)
              \/ NextQuestionBasicPlayedOn(i, r)
       \/ \E r \in evaluateAnswer :
              \/ SubmitAnswerEvaluatedOn(i, r)
              \/ SubmitAnswerBasicEvaluatedOn(i, r)
              \/ AnswerSubmitEvaluatedOn(i, r)
       \/ \E r \in generateFinalReport :
              NextQuestionReportOn(i, r) \/ AnswerSubmitReportOn(i, r)
       \/ \E r \in generateQuestionData : StartSessionImgQuestionsOn(i, r)
       \/ \E r \in generateImage(tasks[i].question) : ImageGeneratedOn(i, r)

\* The runs in which every request and every narration that was started
\* eventually resolves or rejects: the oldest pending one does, at whichever
\* position of tasks it waits.
SettlingSpec ==
    /\ Spec
    /\ \A i \in 1..MaxTasks : WF_vars(SettledOn(i))

\* The sessions in which the user also answers by voice: the steps of Next
\* and those of the capture hook.
NextWithCapture ==
    \/ Next
    \/ HandleStartRecording
    \/ StopRecording
    \/ StartRecordingConnected
    \/ StartRecordingMedia
    \/ Teardown
    \/ TranscriptionMessage
    \/ TransportLost

\* the runs in which the coaching service answers every request
InitCapture == Init /\ ~faults

CaptureSpec == InitCapture /\ [][NextWithCapture]_vars

\* the same runs, in which a pending report request is eventually answered
\* and a timer that was set eventually fires
FairCaptureSpec ==
    /\ CaptureSpec
    /\ WF_vars(NextQuestionReport)
    /\ WF_vars(AnswerSubmitReport)
    /\ WF_vars(Teardown)

\* What a session can say: transcriptions of one character, with or without
\* the end of the turn, and the end of a turn alone.
PartialTexts == {<<"a">>, <<"b">>}
Messages == {Message(t, c) : t \in PartialTexts \cup {<<>>}, c \in BOOLEAN}

\* the message keeps the transcript within MaxSpoken characters
Spoken(m) ==
    Len(transcript) + Len(m.text) + (IF m.turnComplete THEN 1 ELSE 0)
        <= MaxSpoken

OnMessage ==
    \E k \in openSessions : \E m \in Messages : Spoken(m) /\ OnMessageOn(k, m)

OnMessageImg ==
    \E k \in openSessions : \E m \in Messages :
        Spoken(m) /\ OnMessageImgOn(k, m)

\* The capture hooks at work: the steps of either hook while the session
\* waits for the answer to its first question and the user speaks it.
NextHook ==
    \/ HandleStartRecordingUpTo(MaxStarts)
    \/ StopRecording
    \/ StartRecordingConnected
    \/ StartRecordingMedia
    \/ StartTranscription
    \/ StopTranscription
    \/ StartTranscriptionConnected
    \/ StartTranscriptionMedia
    \/ Teardown
    \/ OnMessage
    \/ OnMessageImg
    \/ TransportLost

\* the session at its first question, narrated and illustrated, no request
\* pending, nothing recorded yet
InitHook ==
    /\ app \in {"fluency", "image"}
    /\ faults = FALSE
    /\ reportCount = 0
    /\ reportSent = <<>>
    /\ interviewState = (IF app = "fluency" THEN AWAITING_ANSWER
                                            ELSE NOT_STARTED)
    /\ context = <<" ", "a", " ">>
    /\ questions = <<"q1">>
    /\ currentQuestionIndex = 0
    /\ currentAnswer = <<>>
    /\ feedback = Null
    /\ finalReport = Null
    /\ sessionHistory = <<>>
    /\ error = (IF app = "image" THEN Null ELSE "")
    /\ tasks = <<>>
    /\ timers = 0
    /\ appState = (IF app = "image" THEN SESSION_ACTIVE
                                    ELSE CONTEXT_SELECTION)
    /\ isLoading = FALSE
    /\ history = <<>>
    /\ currentImageUrl = (IF app = "image" THEN ImageOf("q1") ELSE Null)
    /\ isRecording = FALSE
    /\ transcript = <<>>
    /\ sessionRef = NoCapture
    /\ audioContextRef = NoCapture
    /\ processorRef = NoCapture
    /\ mediaStreamRef = NoCapture
    /\ openSessions = {}
    /\ openContexts = {}
    /\ connectedGraphs = {}
    /\ liveStreams = {}
    /\ captures = 0
    /\ teardowns = 0
    /\ fullTranscriptRef = <<>>
    /\ currentTurnTranscriptRef = <<>>
    /\ frameCount = 0
    /\ pendingFrames = <<>>
    /\ sentFrames = <<>>
    /\ inputBuffer = <<>>
    /\ pcmBlob = NoBlob

HookSpec == InitHook /\ [][NextHook]_vars

\* the same runs, in which a timer that was set eventually fires
FairHookSpec == HookSpec /\ WF_vars(Teardown)

\* The audio of a capture: the same steps with the frames the processor
\* delivers and without what the session says.
NextFrames ==
    \/ HandleStartRecordingUpTo(MaxStarts)
    \/ StopRecording
    \/ StartRecordingConnected
    \/ StartRecordingMedia
    \/ StartTranscription
    \/ StopTranscription
    \/ StartTranscriptionConnected
    \/ StartTranscriptionMedia
    \/ Teardown
    \/ TransportLost
    \/ AudioProcess
    \/ FrameSend

FrameSpec == InitHook /\ [][NextFrames]_vars

\* The frames of one capture: the session is connected, the microphone is
\* open and the graph delivers the same buffer with every frame.
InitBlob ==
    /\ app \in {"fluency", "image"}
    /\ faults = FALSE
    /\ reportCount = 0
    /\ reportSent = <<>>
    /\ interviewState = (IF app = "fluency" THEN AWAITING_ANSWER
                                            ELSE NOT_STARTED)
    /\ context = <<" ", "a", " ">>
    /\ questions = <<"q1">>
    /\ currentQuestionIndex = 0
    /\ currentAnswer = <<>>
    /\ feedback = Null
    /\ finalReport = Null
    /\ sessionHistory = <<>>
    /\ error = (IF app = "image" THEN Null ELSE "")
    /\ tasks = <<>>
    /\ timers = 0
    /\ appState = (IF app = "image" THEN SESSION_ACTIVE
                                    ELSE CONTEXT_SELECTION)
    /\ isLoading = FALSE
    /\ history = <<>>
    /\ currentImageUrl = (IF app = "image" THEN ImageOf("q1") ELSE Null)
    /\ isRecording = TRUE
    /\ transcript = <<>>
    /\ sessionRef = 1
    /\ audioContextRef = 1
    /\ processorRef = 1
    /\ mediaStreamRef = 1
    /\ openSessions = {1}
    /\ openContexts = {1}
    /\ connectedGraphs = {1}
    /\ liveStreams = {1}
    /\ captures = 1
    /\ teardowns = 0
    /\ fullTranscriptRef = <<>>
    /\ currentTurnTranscriptRef = <<>>
    /\ frameCount = 0
    /\ pendingFrames = <<>>
    /\ sentFrames = <<>>
    /\ inputBuffer \in Buffers
    /\ pcmBlob = NoBlob

NextBlob ==
    \/ AudioProcess
    \/ FrameSend

BlobSpec == InitBlob /\ [][NextBlob]_vars

----------------------------------------------------------------------------
(* Properties of the session. *)

\* C1: whenever the question list is non-empty, the current index is a valid
\* position in it: 0 <= currentQuestionIndex < questions.length.
C1_IndexInRange ==
    Len(questions) > 0 =>
        currentQuestionIndex >= 0 /\ currentQuestionIndex < Len(questions)

\* the session has advanced to the last of several questions
C1_AtLastQuestion ==
    /\ Len(questions) > 1
    /\ currentQuestionIndex = Len(questions) - 1

\* C2: a submission whose evaluation succeeds appends exactly one entry to the
\* history, made of the question that was current when the answer was
\* submitted, the answer as submitted and the feedback that came back; the
\* entries before it stay as they were.
C2_SubmitAppendsOneEntry ==
    [][/\ (HandleSubmitAnswer /\ tasks' # tasks) =>
              /\ tasks'[Len(tasks')].question = questions[currentQuestionIndex + 1]
              /\ tasks'[Len(tasks')].answer = currentAnswer
       /\ (HandleAnswerSubmit /\ tasks' # tasks) =>
              /\ tasks'[Len(tasks')].question = questions[currentQuestionIndex + 1]
              /\ tasks'[Len(tasks')].answer = currentAnswer
       /\ \A i \in DOMAIN tasks : \A r \in evaluateAnswer :
              /\ (r.ok /\ SubmitAnswerEvaluatedOn(i, r)) =>
                     sessionHistory' = sessionHistory \o
                         <<[question |-> tasks[i].question,
                            answer |-> tasks[i].answer,
                            feedback |-> r.value]>>
              /\ (r.ok /\ AnswerSubmitEvaluatedOn(i, r)) =>
                     /\ Len(history') = Len(history) + 1
                     /\ SubSeq(history', 1, Len(history)) = history
                     /\ history'[Len(history')].questionData = tasks[i].question
                     /\ history'[Len(history')].answer = tasks[i].answer
                     /\ history'[Len(history')].feedback = r.value]_vars

\* two answers, padded with blanks as typed, are in the history with the two
\* questions they answered
C2_TwoEntriesRecorded ==
    /\ app = "fluency"
    /\ Len(questions) = 2
    /\ Len(sessionHistory) = 2
    /\ \A k \in 1..2 :
           /\ sessionHistory[k].question = questions[k]
           /\ sessionHistory[k].answer = <<" ", "a", " ">>

C4_ErrorIsTerminal ==
    [][(app \in {"fluency", "basic"} /\ interviewState = ERROR) =>
           \/ interviewState' = ERROR
           \/ HandleRestart
           \/ HandleRestartBasic]_vars

\* C5 as the specification states it: the rejection of any request issued by
\* the start, submit or next handlers puts the session in ERROR with the
\* message of the rejection.
C5_RejectionsEndInError ==
    [][\A i \in DOMAIN tasks :
           /\ \A r \in generateQuestions :
                  (~r.ok /\ StartSessionQuestionsOn(i, r)) =>
                      interviewState' = ERROR /\ error' = r.message
           /\ \A r \in evaluateAnswer :
                  (~r.ok /\ SubmitAnswerEvaluatedOn(i, r)) =>
                      interviewState' = ERROR /\ error' = r.message
           /\ \A r \in generateFinalReport :
                  (~r.ok /\ NextQuestionReportOn(i, r)) =>
                      interviewState' = ERROR /\ error' = r.message
           /\ \A r \in textToSpeech :
                  (~r.ok /\ (\/ StartSessionSpeechOn(i, r)
                             \/ SubmitAnswerSpeechOn(i, r)
                             \/ NextQuestionSpeechOn(i, r))) =>
                      interviewState' = ERROR /\ error' = r.message]_vars


\* C6 as the specification states it: the next handler at the last question
\* moves the session to GENERATING_REPORT, which is left only for COMPLETED or
\* ERROR, with the index unchanged.
C6_LastAdvanceOnlyToReport ==
    [][app = "fluency" =>
           /\ (HandleNextQuestion /\ currentQuestionIndex = Len(questions) - 1) =>
                  /\ interviewState' = GENERATING_REPORT
                  /\ currentQuestionIndex' = currentQuestionIndex
           /\ interviewState = GENERATING_REPORT =>
                  /\ interviewState' \in {GENERATING_REPORT, COMPLETED, ERROR}
                  /\ currentQuestionIndex' = currentQuestionIndex]_vars

\* the session is over, the report shown
Completed ==
    IF app = "image" THEN appState = FINAL_REPORT ELSE interviewState = COMPLETED

\* the handler that asked for the final report is waiting for it
ReportPending ==
    \E i \in DOMAIN tasks : tasks[i].pc = "report"

\* the history of the mounted variant, and the question of one of its entries
History == IF app = "image" THEN history ELSE sessionHistory
QuestionOf(item) ==
    IF app = "image" THEN item.questionData ELSE item.question

\* a text of blanks only (the empty text included)
OnlySpaces(s) == \A k \in DOMAIN s : s[k] = " "

\* C7: in a run where every request succeeds, the final report is requested
\* at most once per session; the history it is given has one entry per
\* question, entry k holding question k and a non-blank answer; the request
\* is followed by the completed session, where the report is not null and the
\* history is the one that was sent.
C7_ReportOnceWithWholeHistory ==
    /\ [](~faults /\ app # "basic" =>
              /\ reportCount <= 1
              /\ ReportPending => reportCount = 1
              /\ reportCount = 1 =>
                     /\ Len(questions) >= 1
                     /\ Len(reportSent) = Len(questions)
                     /\ \A k \in DOMAIN reportSent :
                            /\ QuestionOf(reportSent[k]) = questions[k]
                            /\ ~OnlySpaces(reportSent[k].answer)
              /\ Completed =>
                     /\ reportCount = 1
                     /\ finalReport \in Reports
                     /\ History = reportSent)
    /\ (~faults /\ ReportPending) ~> Completed

\* a session of two questions is completed without a failure
C7_TwoQuestionsCompleted ==
    /\ ~faults
    /\ app = "fluency"
    /\ interviewState = COMPLETED
    /\ Len(questions) = 2
    /\ Len(sessionHistory) = 2
    /\ finalReport # Null

\* C8 as the specification states it: a start with a blank context issues no
\* request, leaves the first screen shown and stores a validation error.
C8_BlankStartStoresError ==
    /\ ~ENABLED (/\ HandleStartSession
                 /\ OnlySpaces(context)
                 /\ ~(/\ tasks' = tasks
                      /\ interviewState' = NOT_STARTED
                      /\ error' \notin {"", Null}))
    /\ ~ENABLED (/\ HandleStartSessionImg
                 /\ OnlySpaces(context)
                 /\ ~(/\ tasks' = tasks
                      /\ appState' = CONTEXT_SELECTION
                      /\ error' \notin {"", Null}))

\* C8, amended: a start with a blank context issues no request and leaves the
\* first screen shown; the fluency variant stores the validation message (a
\* timer clears it later), the image variant changes nothing and stores no
\* error.
C8_BlankStartIssuesNoRequest ==
    /\ ~ENABLED (/\ HandleStartSession
                 /\ OnlySpaces(context)
                 /\ ~(/\ tasks' = tasks
                      /\ interviewState' = NOT_STARTED
                      /\ error' = "Please enter a context to practice."))
    /\ ~ENABLED (/\ HandleStartSessionImg
                 /\ OnlySpaces(context)
                 /\ ~(UNCHANGED vars))

\* a start with a context of one blank has stored the validation message
C8_BlankContextRefused ==
    /\ app = "fluency"
    /\ context = <<" ">>
    /\ interviewState = NOT_STARTED
    /\ error = "Please enter a context to practice."
    /\ tasks = <<>>

\* C9 as the specification states it: the start handler ends in ERROR with a
\* message and presents no question when the question request fails, and the
\* request fails rather than return an empty list.
C9_NoEmptyQuestionList ==
    [][\A i \in DOMAIN tasks : \A r \in generateQuestions :
           (StartSessionQuestionsOn(i, r) \/ StartInterviewQuestionsOn(i, r)) =>
               /\ r.ok => Len(r.value) > 0
               /\ ~r.ok => /\ interviewState' = ERROR
                           /\ error' \notin {"", Null}
                           /\ questions' = questions]_vars

\* C9, amended: the question request can return an empty list; the start
\* handler ends in ERROR with a message and presents no question when the
\* request fails or returns an empty list, and presents the first question
\* otherwise.  The image variant, which has no ERROR phase, stores a message
\* and stays on its first screen when the request fails.
C9_StartFailsOnNoQuestion ==
    [][\A i \in DOMAIN tasks :
           /\ \A r \in generateQuestions :
                  (StartSessionQuestionsOn(i, r) \/ StartInterviewQuestionsOn(i, r)) =>
                      IF r.ok /\ Len(r.value) > 0
                      THEN /\ interviewState' = ASKING_QUESTION
                           /\ questions' = r.value
                           /\ currentQuestionIndex' = 0
                      ELSE /\ interviewState' = ERROR
                           /\ error' \notin {"", Null}
                           /\ questions' = questions
           /\ \A r \in generateQuestionData :
                  (~r.ok /\ StartSessionImgQuestionsOn(i, r)) =>
                      /\ error' \notin {"", Null}
                      /\ appState' = appState
                      /\ questions' = questions]_vars

\* the question request has returned an empty list
C9_NoQuestionsGenerated ==
    /\ app = "fluency"
    /\ interviewState = ERROR
    /\ error = "No questions were generated for this context."
    /\ questions = <<>>

\* C10: the submit handler invoked with a blank answer changes nothing: no
\* evaluation request, and phase, index, history, feedback and error as they
\* were.
C10_BlankSubmitIsNoOp ==
    [][((HandleSubmitAnswer \/ HandleSubmitAnswerBasic \/ HandleAnswerSubmit)
            /\ OnlySpaces(currentAnswer)) =>
           UNCHANGED vars]_vars

\* an answer of one blank can be submitted, and submitting it changes nothing
C10_BlankAnswerTyped ==
    /\ currentAnswer = <<" ">>
    /\ ENABLED (HandleSubmitAnswer /\ UNCHANGED vars)


\* C11: advancing with more questions to come raises the index by exactly one,
\* clears the answer and the feedback and enters ASKING_QUESTION; when the
\* narration of the new question ends and AWAITING_ANSWER is entered, the
\* answer is empty.
C11_AdvanceReachesEmptyAnswer ==
    [][/\ (/\ HandleNextQuestion \/ HandleNextQuestionBasic
           /\ MoreQuestions(currentQuestionIndex, questions))
          => /\ currentQuestionIndex' = currentQuestionIndex + 1
             /\ currentAnswer' = <<>>
             /\ feedback' = (IF app = "basic" THEN "" ELSE Null)
             /\ interviewState' = ASKING_QUESTION
       /\ (/\ interviewState # AWAITING_ANSWER
           /\ interviewState' = AWAITING_ANSWER
           /\ \E i \in DOMAIN tasks : \E r \in playAudio :
                  NextQuestionPlayedOn(i, r) \/ NextQuestionBasicPlayedOn(i, r))
          => currentAnswer' = <<>>]_vars


\* the narration of question 0 of a started session is still to be
\* synthesized or played
NarrationOfFirstQuestionPending ==
    \E i \in DOMAIN tasks :
        /\ tasks[i].h \in {"start", "startBasic"}
        /\ tasks[i].pc \in {"speech", "play"}

\* C12: a successful start enters ASKING_QUESTION with index 0, and while the
\* narration of question 0 is pending AWAITING_ANSWER is entered only by the
\* step at which that narration finishes playing.
C12_AwaitingOnlyAfterNarration ==
    [][/\ (\E i \in DOMAIN tasks : \E r \in generateQuestions :
               /\ r.ok /\ Len(r.value) > 0
               /\ StartSessionQuestionsOn(i, r) \/ StartInterviewQuestionsOn(i, r))
          => /\ interviewState' = ASKING_QUESTION
             /\ currentQuestionIndex' = 0
       /\ (/\ NarrationOfFirstQuestionPending
           /\ interviewState # AWAITING_ANSWER
           /\ interviewState' = AWAITING_ANSWER)
          => \E i \in DOMAIN tasks : \E r \in playAudio :
                 StartSessionPlayedOn(i, r) \/ StartInterviewPlayedOn(i, r)]_vars

\* every field of the session holds the value it is constructed with
SessionFieldsInitial ==
    /\ interviewState = NOT_STARTED
    /\ appState = CONTEXT_SELECTION
    /\ context = <<>>
    /\ questions = <<>>
    /\ currentQuestionIndex = 0
    /\ currentAnswer = <<>>
    /\ feedback = (IF app = "basic" THEN "" ELSE Null)
    /\ finalReport = Null
    /\ sessionHistory = <<>>
    /\ history = <<>>
    /\ error = (IF app = "image" THEN Null ELSE "")
    /\ currentImageUrl = Null
    /\ isLoading = FALSE

\* C13: a reset returns the phase to the initial one and every other field of
\* the session to its initial value.
C13_ResetRestoresInitialFields ==
    [][(HandleRestart \/ HandleRestartBasic \/ HandleNewSession)
          => SessionFieldsInitial']_vars

\* a reset has acted while a request of the session it ended was pending
C13_ResetWithRequestPending ==
    /\ app = "fluency"
    /\ tasks # <<>>
    /\ SessionFieldsInitial

\* C14: a reset leaves audio capture inactive: isRecording is false and no
\* microphone stream, audio graph or transcription session is open.
C14_ResetEndsCapture ==
    [][HandleRestart
          => /\ ~isRecording'
             /\ liveStreams' = {}
             /\ connectedGraphs' = {}
             /\ openContexts' = {}
             /\ openSessions' = {}]_vars

\* C15: the history holds an entry for every question before the current one:
\* it has at least currentQuestionIndex entries and entry i is about
\* question i.
C15_HistoryCoversEarlierQuestions ==
    app # "basic" =>
        /\ Len(History) >= currentQuestionIndex
        /\ \A i \in 0..(currentQuestionIndex - 1) :
               QuestionOf(History[i + 1]) = At(questions, i)

\* the phases during which a request of the current step is outstanding: those
\* of isLoading, and SHOWING_FEEDBACK while the feedback is narrated
InFlight ==
    {GENERATING_QUESTIONS, ASKING_QUESTION, EVALUATING_ANSWER,
     GENERATING_REPORT, SHOWING_FEEDBACK}

\* the edges of the session's state machine
PhaseEdges ==
    {<<NOT_STARTED, GENERATING_QUESTIONS>>,
     <<GENERATING_QUESTIONS, ASKING_QUESTION>>,
     <<ASKING_QUESTION, AWAITING_ANSWER>>,
     <<AWAITING_ANSWER, EVALUATING_ANSWER>>,
     <<EVALUATING_ANSWER, SHOWING_FEEDBACK>>,
     <<SHOWING_FEEDBACK, ASKING_QUESTION>>,
     <<SHOWING_FEEDBACK, GENERATING_REPORT>>,
     <<GENERATING_REPORT, COMPLETED>>}
        \cup {<<p, ERROR>> : p \in InFlight}

\* C16: the phase changes only along the edges of the state machine, or from
\* ERROR or COMPLETED to NOT_STARTED by a reset (stated for the fluency
\* variant, the one that has all nine phases).
C16_PhaseFollowsEdges ==
    [][(app = "fluency" /\ interviewState' # interviewState)
          => \/ <<interviewState, interviewState'>> \in PhaseEdges
             \/ /\ interviewState \in {ERROR, COMPLETED}
                /\ interviewState' = NOT_STARTED
                /\ HandleRestart]_vars

\* C17 as stated, for the reset: of the two phases its button is rendered in,
\* there is one in which alone it is ever enabled.
C17_ResetEnabledInOnePhase ==
    \/ [](ENABLED HandleRestart => interviewState = COMPLETED)
    \/ [](ENABLED HandleRestart => interviewState = ERROR)

\* C17, amended: starting, submitting, advancing and starting or stopping a
\* recording are each enabled in one phase only; a reset is enabled in two,
\* the completed session and the failed one.
C17_ActionsEnabledInTheirPhases ==
    /\ ENABLED HandleStartSession => interviewState = NOT_STARTED
    /\ ENABLED HandleStartInterview => interviewState = NOT_STARTED
    /\ ENABLED HandleStartSessionImg => appState = CONTEXT_SELECTION
    /\ ENABLED HandleSubmitAnswer => interviewState = AWAITING_ANSWER
    /\ ENABLED HandleSubmitAnswerBasic => interviewState = AWAITING_ANSWER
    /\ ENABLED HandleAnswerSubmit => appState = SESSION_ACTIVE
    /\ ENABLED HandleNextQuestion => interviewState = SHOWING_FEEDBACK
    /\ ENABLED HandleNextQuestionBasic => interviewState = SHOWING_FEEDBACK
    /\ ENABLED HandleStartRecording => interviewState = AWAITING_ANSWER
    /\ ENABLED StopRecording => interviewState = AWAITING_ANSWER
    /\ ENABLED HandleRestart => interviewState \in {COMPLETED, ERROR}
    /\ ENABLED HandleRestartBasic => interviewState \in {COMPLETED, ERROR}
    /\ ENABLED HandleNewSession => appState = FINAL_REPORT

\* the reset is offered in the failed session of a run in which it was, or
\* will be, offered in the completed one too: here after a recording
C17_ResetOfferedAfterFailure ==
    /\ ENABLED HandleRestart
    /\ interviewState = ERROR
    /\ captures > 0

\* the outstanding requests for questions, for an evaluation or for the report
Outstanding(pc) == {i \in DOMAIN tasks : tasks[i].pc = pc}

PhaseAdvancingRequests ==
    Outstanding("questions") \cup Outstanding("evaluate")
        \cup Outstanding("report")

\* C18: at most one phase-advancing request is outstanding, and while one is,
\* the action that triggers it cannot issue another.
C18_OneRequestOutstanding ==
    /\ Cardinality(PhaseAdvancingRequests) <= 1
    /\ Outstanding("questions") # {} =>
           ~ENABLED ((HandleStartSession \/ HandleStartInterview
                        \/ HandleStartSessionImg) /\ tasks' # tasks)
    /\ Outstanding("evaluate") # {} =>
           ~ENABLED ((HandleSubmitAnswer \/ HandleSubmitAnswerBasic
                        \/ HandleAnswerSubmit) /\ tasks' # tasks)
    /\ Outstanding("report") # {} =>
           ~ENABLED ((HandleNextQuestion \/ HandleAnswerSubmit)
                        /\ tasks' # tasks)

\* C19: requests and narrations are strictly sequential: while one that was
\* started earlier is outstanding, none is issued or started.
C19_OneRequestOrNarrationAtATime ==
    [][Len(tasks') > Len(tasks) => tasks = <<>>]_vars

\* C20: from the start of a session to its reset the history is append-only:
\* every change of it adds one entry at the end and keeps the entries it had.
C20_HistoryIsAppendOnly ==
    [][History' # History
          => \/ /\ Len(History') = Len(History) + 1
                /\ SubSeq(History', 1, Len(History)) = History
             \/ HandleRestart \/ HandleNewSession]_vars

\* a second entry has been appended to the first
C20_SecondEntryAppended ==
    /\ Len(History) = 2
    /\ History[1] # History[2]
    /\ \/ app = "fluency" /\ interviewState = SHOWING_FEEDBACK
       \/ app = "image" /\ appState = FINAL_REPORT

----------------------------------------------------------------------------
(* Properties of the capture hooks. *)

\* C21: after every transcription event the exposed transcript is the
\* finalized accumulator followed by the uncommitted current-turn buffer
\* (the hook that has them is useSpeechToText; useLiveConversation keeps
\* only the transcript).
C21_TranscriptIsCommittedPlusOpenTurn ==
    app = "image" =>
        transcript = fullTranscriptRef \o currentTurnTranscriptRef

\* a transcription arrived after a turn was committed
C21_PartialAfterCommit ==
    /\ app = "image"
    /\ fullTranscriptRef # <<>>
    /\ currentTurnTranscriptRef # <<>>

\* C22: a turn-complete signal commits the text accumulated since the
\* previous commit, followed by one space: a message that ends a turn
\* exposes the transcript so far, the text the message carries and a space.
C22_TurnCompleteCommitsWithSpace ==
    [][\A k \in openSessions : \A m \in Messages :
          (m.turnComplete /\ (OnMessageOn(k, m) \/ OnMessageImgOn(k, m)))
              => transcript' = transcript \o m.text \o <<" ">>]_vars

\* C23: stop() while capture is inactive is a no-op and schedules no
\* teardown, so no step schedules a teardown unless capture was active, and
\* stopping an active capture schedules one.
C23_OneTeardownPerStop ==
    [][teardowns' <= teardowns + (IF isRecording THEN 1 ELSE 0)]_vars

\* C24: at any time at most one transcription session is open and at most
\* one microphone stream is live.
C24_OneCaptureOpen ==
    /\ Cardinality(openSessions) <= 1
    /\ Cardinality(liveStreams) <= 1

\* C25: when the session of the active capture reports an error or closes,
\* the shutdown of an explicit stop() runs: isRecording becomes false, the
\* audio graph is disconnected, the microphone tracks are stopped and the
\* teardown that closes and clears the handles is scheduled.
C25_TransportLossShutsDown ==
    [][(isRecording /\ sessionRef # NoCapture /\ TransportLostOn(sessionRef))
          => /\ ~isRecording'
             /\ processorRef \notin connectedGraphs'
             /\ mediaStreamRef \notin liveStreams'
             /\ teardowns' > teardowns]_vars

\* C26: when start() fails, at the connect or at the microphone, capture
\* ends inactive and the session acquired during that start does not stay
\* open: it is closed, or the teardown that closes it is pending.
C26_FailedStartReleases ==
    [][\A i \in DOMAIN tasks : \A r \in connect \cup getUserMedia :
          (/\ ~r.ok
           /\ \/ StartRecordingConnectedOn(i, r)
              \/ StartRecordingMediaOn(i, r)
              \/ StartTranscriptionConnectedOn(i, r)
              \/ StartTranscriptionMediaOn(i, r))
              => /\ ~isRecording'
                 /\ \/ tasks[i].index \notin openSessions'
                    \/ teardowns' > 0 /\ sessionRef' = tasks[i].index]_vars

C28_SendFailureShutsDown ==
    [][\A r \in sendRealtimeInput :
          (~r.ok /\ isRecording /\ FrameSendOn(r))
              => ~isRecording' /\ teardowns' > teardowns]_vars

\* C29: audio frames are sent to the session in the order they were
\* captured: the frames sent so far, followed by those whose send is still
\* pending, are in capture order.
C29_FramesSentInCaptureOrder ==
    LET frames == sentFrames \o pendingFrames
    IN  \A i, j \in DOMAIN frames : i < j => frames[i] < frames[j]

\* two frames were captured and both were sent
C29_TwoFramesSent == Len(sentFrames) = 2

\* the events of voice capture in the fluency coach
CaptureEvent ==
    \/ HandleStartRecording
    \/ StopRecording
    \/ StartRecordingConnected
    \/ StartRecordingMedia
    \/ Teardown
    \/ TranscriptionMessage
    \/ TransportLost

\* a suspended handler of the session, not of the capture hook
OfSession(t) == t.h \notin {"record", "transcribe"}

\* C30: no audio-capture event (start, stop, a refused microphone, a failed
\* connect, a transport error or close, the teardown, a transcription)
\* changes the session phase, the current index, the history, the feedback
\* or the session error, and none removes or changes a pending request of
\* the session.
C30_CaptureLeavesSessionAlone ==
    [][CaptureEvent
          => /\ UNCHANGED <<interviewState, currentQuestionIndex,
                            sessionHistory, feedback, error>>
             /\ SelectSeq(tasks', OfSession) = SelectSeq(tasks, OfSession)]_vars

\* a transcription arrived while the answer was being evaluated: the answer
\* box no longer holds the answer that was submitted
C30_TranscriptionDuringEvaluation ==
    /\ interviewState = EVALUATING_ANSWER
    /\ transcript # <<>>
    /\ currentAnswer = transcript
    /\ \E i \in DOMAIN tasks :
          tasks[i].pc = "evaluate" /\ tasks[i].answer # currentAnswer

----------------------------------------------------------------------------
(* Properties of the session, continued. *)

\* C31: a failure of image generation is non-fatal: it changes neither the
\* screen, the current index, the history nor the session error (nor the
\* loading flag and the pending requests of the handlers), and leaves the
\* illustration as it was, missing.
C31_ImageFailureIsNotFatal ==
    [][\A i \in DOMAIN tasks : \A r \in generateImage(tasks[i].question) :
          (~r.ok /\ ImageGeneratedOn(i, r))
              => /\ UNCHANGED <<appState, currentQuestionIndex, history,
                                error, isLoading, questions, finalReport,
                                currentImageUrl>>
                 /\ tasks' = RemoveAt(tasks, i)]_vars

\* the illustration of the current question failed: the session is at the
\* question with no illustration, no image request pending and no error
C31_IllustrationMissing ==
    /\ app = "image"
    /\ appState = SESSION_ACTIVE
    /\ Len(questions) > 0
    /\ ~isLoading
    /\ currentImageUrl = Null
    /\ error = Null
    /\ \A i \in DOMAIN tasks : tasks[i].h # "image"

\* C32: a frame holds, for every sample s of the buffer and in the same
\* order, the 16-bit integer obtained from s * 32768 limited to the range
\* [-32768, 32767]: a sample of 1.0 gives 32767, not a negative value.
C32_SamplesLimitedTo16Bits ==
    LET Limited(n) == IF n > 2^15 - 1 THEN 2^15 - 1
                      ELSE IF n < -(2^15) THEN -(2^15) ELSE n
        expected == [i \in DOMAIN inputBuffer |->
                        Limited(Truncated(inputBuffer[i], 2))]
    IN  frameCount > 0 => pcmBlob.data = encode(Uint8Array(expected))

\* C33: whenever the session phase is Error, the stored error message is
\* not empty.
C33_ErrorPhaseHasMessage ==
    interviewState = ERROR => error # ""

\* the fields of the session a reset clears and a start fills again
SessionCleared ==
    /\ interviewState = NOT_STARTED
    /\ appState = CONTEXT_SELECTION
    /\ questions = <<>>
    /\ currentQuestionIndex = 0
    /\ feedback = (IF app = "basic" THEN "" ELSE Null)
    /\ finalReport = Null
    /\ sessionHistory = <<>>
    /\ history = <<>>
    /\ error = (IF app = "image" THEN Null ELSE "")
    /\ isLoading = FALSE

\* C34: after a reset the session stays idle with its fields cleared until
\* the next start: the only step that changes phase, questions, index,
\* history, feedback, report or error of a cleared session is a start.
C34_ClearedUntilNextStart ==
    [][(/\ SessionCleared
        /\ <<interviewState, appState, questions, currentQuestionIndex,
             feedback, finalReport, sessionHistory, history, error>>'
             # <<interviewState, appState, questions, currentQuestionIndex,
                 feedback, finalReport, sessionHistory, history, error>>)
          => (HandleStartSession \/ HandleStartInterview
                \/ HandleStartSessionImg)]_vars

\* C35: the history never holds more entries than the session has questions
\* and never two entries about the same question (the questions of one list
\* are distinct, so an entry's question text stands for its index).
C35_OneEntryPerQuestion ==
    app # "basic" =>
        /\ Len(History) <= Len(questions)
        /\ \A i, j \in DOMAIN History :
               i # j => QuestionOf(History[i]) # QuestionOf(History[j])

\* C36: the image shown with the current question, and the image kept in a
\* history entry, is the one generated from that question's prompt, or is
\* absent.
C36_ImageBelongsToItsQuestion ==
    app = "image" =>
        /\ (appState = SESSION_ACTIVE /\ currentImageUrl # Null)
               => currentImageUrl
                      = ImageOf(At(questions, currentQuestionIndex))
        /\ \A k \in DOMAIN history :
               history[k].imageUrl
                   \in {Null, ImageOf(history[k].questionData)}

\* C37: the deferred teardown of an earlier stop never closes or clears the
\* handles of the capture a later start has opened: when the timer fires
\* while a capture is recording, the session, the audio context and the
\* stream that capture has stored stay referenced and open.
C37_LateTeardownSparesLaterCapture ==
    [][(Teardown /\ isRecording) =>
           /\ sessionRef = captures =>
                  /\ sessionRef' = captures
                  /\ (captures \in openSessions
                         => captures \in openSessions')
           /\ audioContextRef = captures =>
                  /\ audioContextRef' = captures
                  /\ captures \in openContexts'
           /\ mediaStreamRef = captures => mediaStreamRef' = captures]_vars

\* C38: a message of a session that an earlier start opened is never appended
\* to the transcript the latest start has cleared: while that start's own
\* session is not open, every open session is an earlier one, and a message
\* arriving then leaves the transcript as it is.
C38_LateMessagesAreDropped ==
    [][(/\ isRecording
        /\ captures \notin openSessions
        /\ (OnMessage \/ OnMessageImg))
          => transcript' = transcript]_vars

\* C39: provided every request and every narration settles, the session
\* never stays for ever in a loading phase: generating the questions, asking
\* a question, evaluating an answer and generating the report are each
\* eventually left, and so is the loading state of the image variant.
C39_LoadingPhasesAreLeft ==
    /\ (interviewState = GENERATING_QUESTIONS)
           ~> (interviewState # GENERATING_QUESTIONS)
    /\ (interviewState = ASKING_QUESTION)
           ~> (interviewState # ASKING_QUESTION)
    /\ (interviewState = EVALUATING_ANSWER)
           ~> (interviewState # EVALUATING_ANSWER)
    /\ (interviewState = GENERATING_REPORT)
           ~> (interviewState # GENERATING_REPORT)
    /\ isLoading ~> ~isLoading

====
